---- MODULE Spec2Model ----
(***************************************************************************)
(* AR.IO MCP server: the tool and resource handlers of its three variants  *)
(*   "full"      src/unnamed/part_000  (gateway, ArNS, ANT, Parquet)       *)
(*   "sizecheck" src/src/index.ts      (HEAD size check, GraphQL, gateways)*)
(*   "range"     src/unnamed/part_001  (ranged GET)                        *)
(* Every handler is an async function; each await is a suspension point    *)
(* and one action.  Texts are strings, built as the template literals of   *)
(* the source build them.                                                  *)
(***************************************************************************)
EXTENDS Integers, Sequences, FiniteSets, TLC

VARIABLES
  variant,   \* which source file is running
  slots,     \* identities of the handler invocations the transport may run
  inv,       \* slot -> the invocation in that slot (position, input, locals)
  calls,     \* number of invocations dispatched so far
  dbs,       \* engine instances created so far: <<[open, views]>>
  conns,     \* engine connections opened so far: <<[open, db]>>
  proc       \* the process: [state, code, log]

cfgVars == <<variant, slots>>
engineVars == <<dbs, conns>>
vars == <<variant, slots, inv, calls, dbs, conns, proc>>

(* Bounds *)

MaxCalls == 2

(* JavaScript strings *)

Char(s, i) == SubSeq(s, i, i)

RECURSIVE Rep(_, _)
Rep(s, n) == IF n <= 0 THEN "" ELSE s \o Rep(s, n - 1)

RECURSIVE Repeated(_, _)
Repeated(s, n) ==
  IF n <= 0 THEN ""
  ELSE LET half == Repeated(s, n \div 2)
       IN half \o half \o (IF n % 2 = 1 THEN s ELSE "")

\* String.prototype.includes
Includes(s, sub) ==
  \E i \in 1..(Len(s) - Len(sub) + 1) : SubSeq(s, i, i + Len(sub) - 1) = sub

StartsWith(s, pre) == Len(s) >= Len(pre) /\ SubSeq(s, 1, Len(pre)) = pre

UpperChars == "ABCDEFGHIJKLMNOPQRSTUVWXYZ"
LowerChars == "abcdefghijklmnopqrstuvwxyz"
DigitChars == "0123456789"

CharSet(s) == {Char(s, i) : i \in 1..Len(s)}

IndexIn(alphabet, c) == CHOOSE i \in 1..Len(alphabet) : Char(alphabet, i) = c

LowerChar(c) ==
  IF c \in CharSet(UpperChars) THEN Char(LowerChars, IndexIn(UpperChars, c)) ELSE c

\* String.prototype.toLowerCase
RECURSIVE ToLowerCase(_)
ToLowerCase(s) ==
  IF s = "" THEN "" ELSE LowerChar(Char(s, 1)) \o ToLowerCase(SubSeq(s, 2, Len(s)))

WhiteSpace == {" ", "\t", "\n", "\r"}

RECURSIVE TrimStart(_)
TrimStart(s) ==
  IF s # "" /\ Char(s, 1) \in WhiteSpace THEN TrimStart(SubSeq(s, 2, Len(s))) ELSE s

RECURSIVE TrimEnd(_)
TrimEnd(s) ==
  IF s # "" /\ Char(s, Len(s)) \in WhiteSpace
  THEN TrimEnd(SubSeq(s, 1, Len(s) - 1)) ELSE s

\* String.prototype.trim
Trim(s) == TrimEnd(TrimStart(s))

\* Number -> string, as a template literal renders an integer
RECURSIVE NatToString(_)
NatToString(n) ==
  IF n < 10 THEN Char(DigitChars, n + 1)
  ELSE NatToString(n \div 10) \o Char(DigitChars, (n % 10) + 1)

IntToString(n) == IF n < 0 THEN "-" \o NatToString(0 - n) ELSE NatToString(n)

\* JavaScript numbers that may be NaN
NaN == [nan |-> TRUE, v |-> 0]
Num(n) == [nan |-> FALSE, v |-> n]
NumToString(x) == IF x.nan THEN "NaN" ELSE IntToString(x.v)
NumGe(x, n) == ~x.nan /\ x.v >= n
NumGt(x, n) == ~x.nan /\ x.v > n       \* x > n : false for NaN
NumTruthy(x) == ~x.nan /\ x.v # 0      \* NaN and 0 are falsy

\* Leading decimal digits of s, as a number; -1 when there is none
RECURSIVE DigitsValue(_, _)
DigitsValue(s, acc) ==
  IF s = "" \/ Char(s, 1) \notin CharSet(DigitChars) THEN acc
  ELSE DigitsValue(SubSeq(s, 2, Len(s)),
                   (IF acc < 0 THEN 0 ELSE acc) * 10 + IndexIn(DigitChars, Char(s, 1)) - 1)

\* parseInt(s, 10): skips leading white space, takes a sign and the leading digits
parseInt(s) ==
  LET t == TrimStart(s)
      neg == t # "" /\ Char(t, 1) = "-"
      signed == t # "" /\ Char(t, 1) \in {"-", "+"}
      d == DigitsValue(IF signed THEN SubSeq(t, 2, Len(t)) ELSE t, -1)
  IN IF d < 0 THEN NaN ELSE Num(IF neg THEN 0 - d ELSE d)

\* Optional values: a header, a query-string parameter, an optional argument
None == [some |-> FALSE, v |-> ""]
Some(x) == [some |-> TRUE, v |-> x]
\* x || dflt for an optional string (null, undefined and "" are falsy)
OrElse(o, dflt) == IF o.some /\ o.v # "" THEN o.v ELSE dflt
Truthy(o) == o.some /\ o.v # ""


(* Values a rejected external call can reject with *)
ErrNetwork == [t |-> "Error", message |-> "request to upstream failed"]
ErrString == [t |-> "string", message |-> "boom"]
ErrUndefined == [t |-> "undefined", message |-> ""]
Thrown == {ErrNetwork, ErrString, ErrUndefined}

\* String(error)
StringOf(e) == IF e.t = "undefined" THEN "undefined" ELSE e.message

\* error instanceof Error ? error.message : String(error)
ErrorText(e) == [threw |-> FALSE,
                 text |-> IF e.t = "Error" THEN e.message ELSE StringOf(e)]

\* error.message: reading a property of undefined throws a TypeError
ErrorMessage(e) ==
  CASE e.t = "Error" -> [threw |-> FALSE, text |-> e.message]
    [] e.t = "string" -> [threw |-> FALSE, text |-> "undefined"]
    [] OTHER -> [threw |-> TRUE, text |-> "Cannot read properties of undefined (reading 'message')"]

(* Response envelopes *)
NoResp == [kind |-> "none", uri |-> "", text |-> ""]
\* { content: [{ type: "text", text }] }
Content(text) == [kind |-> "content", uri |-> "", text |-> text]
\* { contents: [{ uri: uri.href, text }] }
Contents(href, text) == [kind |-> "contents", uri |-> href, text |-> text]
\* the handler's promise rejects: the SDK answers with a protocol error
Fault(text) == [kind |-> "fault", uri |-> "", text |-> text]
\* the declared input shape rejects the arguments: the handler is not run
Invalid(text) == [kind |-> "invalid", uri |-> "", text |-> text]

\* The catch block of a handler: prefix, rendering of the error, envelope
Caught(prefix, rendered, href, isTool) ==
  IF rendered.threw THEN Fault(rendered.text)
  ELSE IF isTool THEN Content(prefix \o rendered.text)
  ELSE Contents(href, prefix \o rendered.text)

(* Invocations *)
NoArg == [none |-> TRUE]
Idle == [pc |-> "idle", h |-> "", arg |-> NoArg, href |-> "", loc |-> NoArg,
         reqs |-> <<>>, ans |-> <<>>, resp |-> NoResp]

Begin(h, arg, href, pc, loc, reqs) ==
  [pc |-> pc, h |-> h, arg |-> arg, href |-> href, loc |-> loc, reqs |-> reqs,
   ans |-> <<>>, resp |-> NoResp]

Rejected(h, arg, text) ==
  [pc |-> "done", h |-> h, arg |-> arg, href |-> "", loc |-> NoArg, reqs |-> <<>>,
   ans |-> <<>>, resp |-> Invalid(text)]

Return(c, resp) == [c EXCEPT !.pc = "done", !.resp = resp]

\* what the external calls of an invocation answered, in order
Answered(c, a) == [c EXCEPT !.ans = Append(@, a)]
\* the call rejected with e
Threw(c, e) == Answered(c, [kind |-> "threw", e |-> e])
\* an HTTP response r; data: the headers and body the handler read from it
Responded(c, r, data) == Answered(c, [kind |-> "response", r |-> r, data |-> data])
\* a client or engine call resolved with data
Resolved(c, data) == Answered(c, [kind |-> "value", data |-> data])

\* the process: connecting its transport, serving, or exited with a status
Serving == proc.state = "serving"

CanDispatch(i) == Serving /\ inv[i].pc = "idle" /\ calls < MaxCalls

(* HTTP *)
gatewayUrl == "https://ardrive.net"

NoBody == [t |-> "none"]

\* an outbound call: an HTTP request, or a call of an SDK client (method = its name)
Request(method, url, range, body) ==
  [method |-> method, url |-> url, range |-> range, body |-> body]

Statuses ==
  { [status |-> 200, statusText |-> "OK"],
    [status |-> 404, statusText |-> "Not Found"],
    [status |-> 500, statusText |-> "Internal Server Error"] }

\* Response.ok
Ok(r) == r.status >= 200 /\ r.status <= 299

StatusTextOnly(r) == r.statusText
StatusLine(r) == IntToString(r.status) \o " " \o r.statusText

(* Transaction identifiers *)
Base64UrlChars == CharSet(UpperChars) \cup CharSet(LowerChars) \cup CharSet(DigitChars) \cup {"_", "-"}

TxIdLength == 43

TxIdLengthOnly(s) == Len(s) = TxIdLength

\* /^[a-zA-Z0-9_-]{43}$/
TxIdPattern(s) ==
  Len(s) = TxIdLength /\ \A i \in 1..Len(s) : Char(s, i) \in Base64UrlChars

TxIds ==
  { Rep("a", 40) \o "Z9_" , Rep("-", 43), Rep("a", 42), Rep("a", 44),
    Rep("a", 42) \o "!", Rep("a", 42) \o "+", Rep("a", 21) \o "/" \o Rep("a", 21), "" }

(* Response bodies: bytes *)
Base64Chars == UpperChars \o LowerChars \o DigitChars \o "+/"

B64(n) == Char(Base64Chars, n + 1)

\* the four characters of the g-th group of three bytes (g from 0), padded with =
Base64Group(b, len, g) ==
  LET k == 3 * g + 1
      n == len - 3 * g
  IN
  IF n = 1 THEN
    B64(b[k] \div 4) \o B64((b[k] % 4) * 16) \o "=="
  ELSE IF n = 2 THEN
    B64(b[k] \div 4) \o B64((b[k] % 4) * 16 + b[k + 1] \div 16)
      \o B64((b[k + 1] % 16) * 4) \o "="
  ELSE
    B64(b[k] \div 4) \o B64((b[k] % 4) * 16 + b[k + 1] \div 16)
      \o B64((b[k + 1] % 16) * 4 + b[k + 2] \div 64) \o B64(b[k + 2] % 64)

RECURSIVE Base64Groups(_, _, _, _)
Base64Groups(b, len, lo, hi) ==
  IF lo > hi THEN ""
  ELSE IF lo = hi THEN Base64Group(b, len, lo)
  ELSE LET mid == (lo + hi) \div 2
       IN Base64Groups(b, len, lo, mid) \o Base64Groups(b, len, mid + 1, hi)

\* Buffer.from(buffer).toString('base64')
Base64(b) == LET len == Len(b) IN Base64Groups(b, len, 0, (len + 2) \div 3 - 1)

AsciiTo95 ==
  " !\"#$%&'()*+,-./0123456789:;<=>?@ABCDEFGHIJKLMNOPQRSTUVWXYZ[\\]^_"
AsciiFrom97 == "abcdefghijklmnopqrstuvwxyz{|}~"

\* the character of one byte: ASCII; a byte that starts no valid UTF-8 sequence
\* decodes to the replacement character
Utf8Char(b) ==
  IF b >= 32 /\ b <= 95 THEN Char(AsciiTo95, b - 31)
  ELSE IF b >= 97 /\ b <= 126 THEN Char(AsciiFrom97, b - 96)
  ELSE IF b = 10 THEN "\n"
  ELSE IF b = 96 THEN "<U+0060>"
  ELSE "<U+FFFD>"

RECURSIVE Utf8DecodeRange(_, _, _)
Utf8DecodeRange(b, lo, hi) ==
  IF lo > hi THEN ""
  ELSE IF lo = hi THEN Utf8Char(b[lo])
  ELSE LET mid == (lo + hi) \div 2
       IN Utf8DecodeRange(b, lo, mid) \o Utf8DecodeRange(b, mid + 1, hi)

\* response.text()
Utf8Decode(b) == Utf8DecodeRange(b, 1, Len(b))

Bodies == { <<>>, <<104, 105>>, <<123, 125>>, <<255, 216, 255, 224>> }

\* the limit of the size check, in bytes
SizeLimit == 8192

\* a body one byte over the limit
LargeBody == [k \in 1..(SizeLimit + 1) |-> 97]

\* what a GET without a Range header may answer
FullBodies == Bodies \cup {LargeBody}

ContentTypes ==
  { None, Some("text/plain"), Some("application/json; charset=utf-8"), Some("image/png"),
    Some("application/xml"), Some("application/javascript") }

ContentLengths ==
  { None, Some("0"), Some("2"), Some("8192"), Some("8193"), Some("1048576"), Some("abc") }

RawUrl(txId) == gatewayUrl \o "/raw/" \o txId

IsTextTypeTextOnly(contentType) == Includes(contentType, "text/")

\* contentType.includes("text/") || ... : the body is read as text
IsTextType(contentType) ==
  \/ Includes(contentType, "text/")
  \/ Includes(contentType, "application/json")
  \/ Includes(contentType, "application/xml")
  \/ Includes(contentType, "application/javascript")

TransactionData(contentType, body) ==
  IF IsTextType(contentType) THEN Utf8Decode(body)
  ELSE "[Binary data encoded as base64]: " \o Base64(body)

TooLargeText(contentLength) ==
  "Error: Transaction data is too large (" \o NumToString(contentLength)
    \o " bytes, limit is 8KB)"

TransactionText(contentLength, contentType, body) ==
  "Transaction data (" \o NumToString(contentLength) \o " bytes, " \o contentType
    \o "): " \o TransactionData(contentType, body)

SizeChecking == variant \in {"full", "sizecheck"}

(* JSON values: [t |-> "null"|"bool"|"num"|"str"|"big"|"arr"|"obj", ...] *)
JNull == [t |-> "null"]
JBool(b) == [t |-> "bool", b |-> b]
JNum(n) == [t |-> "num", n |-> n]
JStr(s) == [t |-> "str", s |-> s]
\* a bigint: sign and magnitude, the magnitude as base-1000 digits, lowest first
JBig(neg, limbs) == [t |-> "big", neg |-> neg, limbs |-> limbs]
JArr(a) == [t |-> "arr", a |-> a]
\* an object: its keys in insertion order and their values
JObj(k, v) == [t |-> "obj", k |-> k, v |-> v]

Pad3(n) == IF n < 10 THEN "00" \o NatToString(n)
           ELSE IF n < 100 THEN "0" \o NatToString(n) ELSE NatToString(n)

RECURSIVE LimbsToString(_)
LimbsToString(limbs) ==
  IF Len(limbs) = 1 THEN NatToString(limbs[1])
  ELSE LimbsToString(SubSeq(limbs, 2, Len(limbs))) \o Pad3(limbs[1])

\* BigInt.prototype.toString()
BigIntToString(v) == (IF v.neg THEN "-" ELSE "") \o LimbsToString(v.limbs)

QuoteChar(c) ==
  IF c = "\"" THEN "\\\"" ELSE IF c = "\\" THEN "\\\\" ELSE IF c = "\n" THEN "\\n" ELSE c

RECURSIVE QuoteBody(_)
QuoteBody(s) ==
  IF s = "" THEN "" ELSE QuoteChar(Char(s, 1)) \o QuoteBody(SubSeq(s, 2, Len(s)))

\* QuoteJSONString
Quote(s) == "\"" \o QuoteBody(s) \o "\""

\* JSON.stringify throws on a bigint it meets anywhere in the value
RECURSIVE HasBigInt(_)
HasBigInt(v) ==
  CASE v.t = "big" -> TRUE
    [] v.t = "arr" -> \E j \in 1..Len(v.a) : HasBigInt(v.a[j])
    [] v.t = "obj" -> \E j \in 1..Len(v.v) : HasBigInt(v.v[j])
    [] OTHER -> FALSE

\* SerializeJSONProperty with gap "  ": ind is the current indentation
RECURSIVE Serialize(_, _)
RECURSIVE SerializeItems(_, _, _, _)
\* the properties or elements lo..hi of v, one per line, separated by commas
SerializeItems(v, lo, hi, ind) ==
  IF lo = hi
  THEN ind \o (IF v.t = "obj" THEN Quote(v.k[lo]) \o ": " ELSE "")
           \o Serialize(IF v.t = "obj" THEN v.v[lo] ELSE v.a[lo], ind)
  ELSE LET mid == (lo + hi) \div 2 IN
       SerializeItems(v, lo, mid, ind) \o ",\n" \o SerializeItems(v, mid + 1, hi, ind)

Serialize(v, ind) ==
  CASE v.t = "null" -> "null"
    [] v.t = "bool" -> IF v.b THEN "true" ELSE "false"
    [] v.t = "num" -> IntToString(v.n)
    [] v.t = "str" -> Quote(v.s)
    [] v.t = "arr" ->
         IF Len(v.a) = 0 THEN "[]"
         ELSE "[\n" \o SerializeItems(v, 1, Len(v.a), ind \o "  ") \o "\n" \o ind \o "]"
    [] v.t = "obj" ->
         IF Len(v.v) = 0 THEN "{}"
         ELSE "{\n" \o SerializeItems(v, 1, Len(v.v), ind \o "  ") \o "\n" \o ind \o "}"
    [] OTHER -> "<TypeError>"

ErrBigInt == [t |-> "Error", message |-> "Do not know how to serialize a BigInt"]

\* JSON.stringify(value, null, 2): the text, or the TypeError it throws
JSONStringify(v) ==
  IF HasBigInt(v) THEN [threw |-> TRUE, e |-> ErrBigInt, text |-> ""]
  ELSE [threw |-> FALSE, e |-> ErrBigInt, text |-> Serialize(v, "")]

ReplacerTopLevel(v) == IF v.t = "big" THEN JStr(BigIntToString(v)) ELSE v

\* the replacer of safeStringify, applied to every property value
RECURSIVE Replacer(_)
Replacer(v) ==
  CASE v.t = "big" -> JStr(BigIntToString(v))
    [] v.t = "arr" -> JArr([j \in 1..Len(v.a) |-> Replacer(v.a[j])])
    [] v.t = "obj" -> JObj(v.k, [j \in 1..Len(v.v) |-> Replacer(v.v[j])])
    [] OTHER -> v

safeStringify(obj) == JSONStringify(Replacer(obj))

(* Tool fetch-raw-transaction, size-checking variant *)
FetchRawTransaction_Call(i) ==
  /\ SizeChecking
  /\ CanDispatch(i)
  /\ \E txId \in TxIds :
       inv' = [inv EXCEPT ![i] =
         IF ~TxIdPattern(txId)
         THEN Rejected("fetch-raw-transaction", [txId |-> txId],
                       "Invalid transaction ID format")
         ELSE Begin("fetch-raw-transaction", [txId |-> txId], "", "head", NoArg,
                    <<Request("HEAD", RawUrl(txId), "", NoBody)>>)]
  /\ calls' = calls + 1
  /\ UNCHANGED <<cfgVars, proc, engineVars>>

FetchRawTransaction_HeadBackingOff(i) ==
  LET c == inv[i] IN
  /\ SizeChecking
  /\ Serving
  /\ c.h = "fetch-raw-transaction" /\ c.pc = "head"
  /\ \/ \E e \in Thrown :
          inv' = [inv EXCEPT ![i] = Return(Threw(c, e), Caught("Error: ", ErrorText(e), "", TRUE))]
     \/ \E headResponse \in Statuses, cl \in ContentLengths :
          LET contentLength == parseInt(OrElse(cl, "0")) IN
          inv' = [inv EXCEPT ![i] =
            IF ~Ok(headResponse)
            THEN [Responded(c, headResponse, NoBody) EXCEPT !.pc = "backoff"]
            ELSE IF NumGt(contentLength, SizeLimit)
            THEN Return(Responded(c, headResponse, cl), Content(TooLargeText(contentLength)))
            ELSE [Responded(c, headResponse, cl) EXCEPT !.pc = "get",
                           !.loc = [contentLength |-> contentLength],
                           !.reqs = Append(@, Request("GET", RawUrl(c.arg.txId), "", NoBody))]]
  /\ UNCHANGED <<cfgVars, proc, calls, engineVars>>

FetchRawTransaction_Head(i) ==
  LET c == inv[i] IN
  /\ SizeChecking
  /\ Serving
  /\ c.h = "fetch-raw-transaction" /\ c.pc = "head"
  /\ \/ \E e \in Thrown :
          inv' = [inv EXCEPT ![i] = Return(Threw(c, e), Caught("Error: ", ErrorText(e), "", TRUE))]
     \/ \E headResponse \in Statuses, cl \in ContentLengths :
          LET contentLength == parseInt(OrElse(cl, "0")) IN
          inv' = [inv EXCEPT ![i] =
            IF ~Ok(headResponse)
            THEN Return(Responded(c, headResponse, NoBody), Content("Error fetching transaction: " \o StatusLine(headResponse)))
            ELSE IF NumGt(contentLength, SizeLimit)
            THEN Return(Responded(c, headResponse, cl), Content(TooLargeText(contentLength)))
            ELSE [Responded(c, headResponse, cl) EXCEPT !.pc = "get",
                           !.loc = [contentLength |-> contentLength],
                           !.reqs = Append(@, Request("GET", RawUrl(c.arg.txId), "", NoBody))]]
  /\ UNCHANGED <<cfgVars, proc, calls, engineVars>>

\* the GET of the tool, answered with one of bodies
FetchRawTransaction_GetOf(i, bodies) ==
  LET c == inv[i] IN
  /\ SizeChecking
  /\ Serving
  /\ c.h = "fetch-raw-transaction" /\ c.pc = "get"
  /\ \/ \E e \in Thrown :
          inv' = [inv EXCEPT ![i] = Return(Threw(c, e), Caught("Error: ", ErrorText(e), "", TRUE))]
     \/ \E response \in Statuses, ct \in ContentTypes, body \in bodies :
          inv' = [inv EXCEPT ![i] =
            IF ~Ok(response)
            THEN Return(Responded(c, response, NoBody), Content("Error fetching transaction: " \o StatusLine(response)))
            ELSE Return(Responded(c, response, [ct |-> ct, body |-> body]), Content(TransactionText(c.loc.contentLength, OrElse(ct, ""), body)))]
  /\ UNCHANGED <<cfgVars, proc, calls, engineVars>>

FetchRawTransaction_Get(i) == FetchRawTransaction_GetOf(i, Bodies)

\* the same step when the gateway may also answer a body over the limit
FetchRawTransaction_GetAnyLength(i) == FetchRawTransaction_GetOf(i, FullBodies)

(* Resource transaction://{txId}, size-checking variant *)
TransactionResource_Read(i) ==
  /\ SizeChecking
  /\ CanDispatch(i)
  /\ \E txId \in TxIds :
       LET href == "transaction://" \o txId IN
       inv' = [inv EXCEPT ![i] =
         IF txId = ""
         THEN Return(Begin("transaction", [txId |-> txId], href, "entry", NoArg, <<>>),
                     Contents(href, "Error: Missing transaction ID"))
         ELSE Begin("transaction", [txId |-> txId], href, "head", NoArg,
                    <<Request("HEAD", RawUrl(txId), "", NoBody)>>)]
  /\ calls' = calls + 1
  /\ UNCHANGED <<cfgVars, proc, engineVars>>

TransactionResource_Head(i) ==
  LET c == inv[i] IN
  /\ SizeChecking
  /\ Serving
  /\ c.h = "transaction" /\ c.pc = "head"
  /\ \/ \E e \in Thrown :
          inv' = [inv EXCEPT ![i] = Return(Threw(c, e), Caught("Error: ", ErrorText(e), c.href, FALSE))]
     \/ \E headResponse \in Statuses, cl \in ContentLengths :
          LET contentLength == parseInt(OrElse(cl, "0")) IN
          inv' = [inv EXCEPT ![i] =
            IF ~Ok(headResponse)
            THEN Return(Responded(c, headResponse, NoBody), Contents(c.href, "Error fetching transaction: " \o StatusLine(headResponse)))
            ELSE IF NumGt(contentLength, SizeLimit)
            THEN Return(Responded(c, headResponse, cl), Contents(c.href, TooLargeText(contentLength)))
            ELSE [Responded(c, headResponse, cl) EXCEPT !.pc = "get",
                           !.loc = [contentLength |-> contentLength],
                           !.reqs = Append(@, Request("GET", RawUrl(c.arg.txId), "", NoBody))]]
  /\ UNCHANGED <<cfgVars, proc, calls, engineVars>>

TransactionResource_Get(i) ==
  LET c == inv[i] IN
  /\ SizeChecking
  /\ Serving
  /\ c.h = "transaction" /\ c.pc = "get"
  /\ \/ \E e \in Thrown :
          inv' = [inv EXCEPT ![i] = Return(Threw(c, e), Caught("Error: ", ErrorText(e), c.href, FALSE))]
     \/ \E response \in Statuses, ct \in ContentTypes, body \in Bodies :
          inv' = [inv EXCEPT ![i] =
            IF ~Ok(response)
            THEN Return(Responded(c, response, NoBody), Contents(c.href, "Error fetching transaction: " \o StatusLine(response)))
            ELSE Return(Responded(c, response, [ct |-> ct, body |-> body]), Contents(c.href,
                   TransactionText(c.loc.contentLength, OrElse(ct, ""), body)))]
  /\ UNCHANGED <<cfgVars, proc, calls, engineVars>>

(* Tool fetch-raw-transaction and resource transaction://{txId}, range variant *)
RangeHeaderOpenEnded == "bytes=0-"
\* headers: { Range: "bytes=0-999" }
RangeHeader == "bytes=0-999"

RangeFetchRawTransaction_Call(i) ==
  /\ variant = "range"
  /\ CanDispatch(i)
  /\ \E txId \in TxIds :
       inv' = [inv EXCEPT ![i] =
         IF ~TxIdPattern(txId)
         THEN Rejected("fetch-raw-transaction", [txId |-> txId],
                       "Invalid transaction ID format")
         ELSE Begin("fetch-raw-transaction", [txId |-> txId], "", "get", NoArg,
                    <<Request("GET", RawUrl(txId), RangeHeader, NoBody)>>)]
  /\ calls' = calls + 1
  /\ UNCHANGED <<cfgVars, proc, engineVars>>

RangeFetchRawTransaction_Get(i) ==
  LET c == inv[i] IN
  /\ variant = "range"
  /\ Serving
  /\ c.h = "fetch-raw-transaction" /\ c.pc = "get"
  /\ \/ \E e \in Thrown :
          inv' = [inv EXCEPT ![i] = Return(Threw(c, e), Caught("Error: ", ErrorMessage(e), "", TRUE))]
     \/ \E response \in Statuses, body \in Bodies :
          inv' = [inv EXCEPT ![i] =
            IF ~Ok(response)
            THEN Return(Responded(c, response, NoBody), Content("Error fetching transaction: " \o StatusLine(response)))
            ELSE Return(Responded(c, response, [body |-> body]), Content("First 1000 bytes of transaction data: "
                                     \o Utf8Decode(body)))]
  /\ UNCHANGED <<cfgVars, proc, calls, engineVars>>

RangeTransactionResource_Read(i) ==
  /\ variant = "range"
  /\ CanDispatch(i)
  /\ \E txId \in TxIds :
       inv' = [inv EXCEPT ![i] =
         Begin("transaction", [txId |-> txId], "transaction://" \o txId, "get", NoArg,
               <<Request("GET", RawUrl(txId), RangeHeader, NoBody)>>)]
  /\ calls' = calls + 1
  /\ UNCHANGED <<cfgVars, proc, engineVars>>

RangeTransactionResource_Get(i) ==
  LET c == inv[i] IN
  /\ variant = "range"
  /\ Serving
  /\ c.h = "transaction" /\ c.pc = "get"
  /\ \/ \E e \in Thrown :
          inv' = [inv EXCEPT ![i] = Return(Threw(c, e), Caught("Error: ", ErrorMessage(e), c.href, FALSE))]
     \/ \E response \in Statuses, body \in Bodies :
          inv' = [inv EXCEPT ![i] =
            IF ~Ok(response)
            THEN Return(Responded(c, response, NoBody), Contents(c.href, "Error fetching transaction: " \o StatusLine(response)))
            ELSE Return(Responded(c, response, [body |-> body]), Contents(c.href, "Transaction data: " \o Utf8Decode(body)))]
  /\ UNCHANGED <<cfgVars, proc, calls, engineVars>>

(* Gateway info *)
ErrSyntax == [t |-> "Error", message |-> "Unexpected token < in JSON at position 0"]

InfoBodies ==
  { JObj(<<>>, <<>>),
    JObj(<<"wallet", "release">>, <<JStr("abc"), JNum(42)>>) }

\* JSON.stringify(value, null, 2) inside a try block: the text, or the caught error
Stringified(v, prefix, href, isTool) ==
  LET r == JSONStringify(v) IN
  IF r.threw THEN Caught(prefix, ErrorText(r.e), href, isTool)
  ELSE IF isTool THEN Content(r.text) ELSE Contents(href, r.text)

GetGatewayInfo_Call(i) ==
  /\ CanDispatch(i)
  /\ inv' = [inv EXCEPT ![i] =
       Begin("get-gateway-info", NoArg, "", "info", NoArg,
             <<Request("GET", gatewayUrl \o "/ar-io/info", "", NoBody)>>)]
  /\ calls' = calls + 1
  /\ UNCHANGED <<cfgVars, proc, engineVars>>

GetGatewayInfo_InfoRetrying(i) ==
  LET c == inv[i]
      rendered(e) == IF variant = "range" THEN ErrorMessage(e) ELSE ErrorText(e)
  IN
  /\ Serving
  /\ c.h = "get-gateway-info" /\ c.pc = "info"
  /\ \/ \E e \in Thrown \cup {ErrSyntax} :
          inv' = [inv EXCEPT ![i] = Return(Threw(c, e), Caught("Error: ", rendered(e), "", TRUE))]
     \/ \E response \in Statuses, info \in InfoBodies :
          inv' = [inv EXCEPT ![i] =
            IF ~Ok(response) /\ Len(c.reqs) < 2
            THEN [Responded(c, response, NoBody) EXCEPT !.reqs = Append(@, c.reqs[1])]
            ELSE IF ~Ok(response)
            THEN Return(Responded(c, response, NoBody), Content("Error fetching gateway info: " \o StatusLine(response)))
            ELSE Return(Responded(c, response, info), Stringified(info, "Error: ", "", TRUE))]
  /\ UNCHANGED <<cfgVars, proc, calls, engineVars>>

\* the catch block of the range variant reads error.message unguarded
GetGatewayInfo_Info(i) ==
  LET c == inv[i]
      rendered(e) == IF variant = "range" THEN ErrorMessage(e) ELSE ErrorText(e)
  IN
  /\ Serving
  /\ c.h = "get-gateway-info" /\ c.pc = "info"
  /\ \/ \E e \in Thrown \cup {ErrSyntax} :
          inv' = [inv EXCEPT ![i] = Return(Threw(c, e), Caught("Error: ", rendered(e), "", TRUE))]
     \/ \E response \in Statuses, info \in InfoBodies :
          inv' = [inv EXCEPT ![i] =
            IF ~Ok(response)
            THEN Return(Responded(c, response, NoBody), Content("Error fetching gateway info: " \o StatusLine(response)))
            ELSE Return(Responded(c, response, info), Stringified(info, "Error: ", "", TRUE))]
  /\ UNCHANGED <<cfgVars, proc, calls, engineVars>>

Hostnames ==
  {"", "ar-io.dev", "https://ar-io.dev", "http://ar-io.dev", "HTTPS://ar-io.dev",
   "http://https://ar-io.dev"}

\* hostname.replace(/^https?:\/\//, "")
CleanHostname(hostname) ==
  IF StartsWith(hostname, "https://") THEN SubSeq(hostname, 9, Len(hostname))
  ELSE IF StartsWith(hostname, "http://") THEN SubSeq(hostname, 8, Len(hostname))
  ELSE hostname

GatewayInfoUrl(hostname) == "https://" \o CleanHostname(hostname) \o "/ar-io/info"

GetGatewayInfoByHostname_Call(i) ==
  /\ variant = "full"
  /\ CanDispatch(i)
  /\ \E hostname \in Hostnames :
       inv' = [inv EXCEPT ![i] =
         IF Len(hostname) < 1
         THEN Rejected("get-gateway-info-by-hostname", [hostname |-> hostname],
                       "Hostname is required")
         ELSE Begin("get-gateway-info-by-hostname", [hostname |-> hostname], "", "info",
                    [cleanHostname |-> CleanHostname(hostname)],
                    <<Request("GET", GatewayInfoUrl(hostname), "", NoBody)>>)]
  /\ calls' = calls + 1
  /\ UNCHANGED <<cfgVars, proc, engineVars>>

GetGatewayInfoByHostname_Info(i) ==
  LET c == inv[i] IN
  /\ variant = "full"
  /\ Serving
  /\ c.h = "get-gateway-info-by-hostname" /\ c.pc = "info"
  /\ \/ \E e \in Thrown \cup {ErrSyntax} :
          inv' = [inv EXCEPT ![i] = Return(Threw(c, e), Caught("Error: ", ErrorText(e), "", TRUE))]
     \/ \E response \in Statuses, info \in InfoBodies :
          inv' = [inv EXCEPT ![i] =
            IF ~Ok(response)
            THEN Return(Responded(c, response, NoBody), Content("Error fetching gateway info from "
                     \o c.loc.cleanHostname \o ": " \o StatusLine(response)))
            ELSE Return(Responded(c, response, info), Stringified(info, "Error: ", "", TRUE))]
  /\ UNCHANGED <<cfgVars, proc, calls, engineVars>>

GatewayResource_Read(i) ==
  /\ variant = "full"
  /\ CanDispatch(i)
  /\ \E hostname \in Hostnames :
       LET href == "gateway://" \o hostname IN
       inv' = [inv EXCEPT ![i] =
         IF hostname = ""
         THEN Return(Begin("gateway", [hostname |-> hostname], href, "entry", NoArg, <<>>),
                     Contents(href, "Error: Missing hostname"))
         ELSE Begin("gateway", [hostname |-> hostname], href, "info",
                    [cleanHostname |-> CleanHostname(hostname)],
                    <<Request("GET", GatewayInfoUrl(hostname), "", NoBody)>>)]
  /\ calls' = calls + 1
  /\ UNCHANGED <<cfgVars, proc, engineVars>>

GatewayResource_Info(i) ==
  LET c == inv[i] IN
  /\ variant = "full"
  /\ Serving
  /\ c.h = "gateway" /\ c.pc = "info"
  /\ \/ \E e \in Thrown \cup {ErrSyntax} :
          inv' = [inv EXCEPT ![i] = Return(Threw(c, e), Caught("Error: ", ErrorText(e), c.href, FALSE))]
     \/ \E response \in Statuses, info \in InfoBodies :
          inv' = [inv EXCEPT ![i] =
            IF ~Ok(response)
            THEN Return(Responded(c, response, NoBody), Contents(c.href, "Error fetching gateway info from "
                     \o c.loc.cleanHostname \o ": " \o StatusLine(response)))
            ELSE Return(Responded(c, response, info), Stringified(info, "Error: ", c.href, FALSE))]
  /\ UNCHANGED <<cfgVars, proc, calls, engineVars>>

(* GraphQL *)
GraphQLQueries == {"", "{ transactions { edges { node { id } } } }"}

\* an optional JSON value: undefined, or the value
Undefined == [t |-> "undefined"]

GraphQLVariables == {Undefined, JObj(<<"first">>, <<JNum(5)>>)}

OperationNames == {None, Some("Recent")}

OptString(o) == IF Truthy(o) THEN JStr(o.v) ELSE Undefined

\* an object literal: a property whose value is undefined is left out when the
\* object is serialized or sent
ObjectOf(ks, vs) ==
  LET keep == SelectSeq([j \in 1..Len(ks) |-> j], LAMBDA j : vs[j].t # "undefined")
  IN JObj([j \in 1..Len(keep) |-> ks[keep[j]]], [j \in 1..Len(keep) |-> vs[keep[j]]])

\* JSON.stringify({ query, variables, operationName }): the body, as the JSON value
\* it denotes
GraphQLBody(query, variables, operationName) ==
  ObjectOf(<<"query", "variables", "operationName">>,
           <<JStr(query), variables, operationName>>)

GraphQLResults ==
  { JObj(<<"data">>, <<JObj(<<"transactions">>, <<JArr(<<>>)>>)>>),
    JObj(<<"errors">>, <<JArr(<<JObj(<<"message">>, <<JStr("Syntax Error")>>)>>)>>) }

ExecuteGraphQL_Call(i) ==
  /\ variant \in {"full", "sizecheck"}
  /\ CanDispatch(i)
  /\ \E query \in GraphQLQueries, variables \in GraphQLVariables,
        operationName \in OperationNames :
       LET arg == [query |-> query, variables |-> variables,
                   operationName |-> operationName] IN
       inv' = [inv EXCEPT ![i] =
         IF Len(query) < 1
         THEN Rejected("execute-graphql", arg, "GraphQL query is required")
         ELSE Begin("execute-graphql", arg, "", "post", NoArg,
                    <<Request("POST", gatewayUrl \o "/graphql", "",
                              GraphQLBody(query, variables,
                                IF operationName.some THEN JStr(operationName.v)
                                ELSE Undefined))>>)]
  /\ calls' = calls + 1
  /\ UNCHANGED <<cfgVars, proc, engineVars>>

ExecuteGraphQL_Post(i) ==
  LET c == inv[i] IN
  /\ variant \in {"full", "sizecheck"}
  /\ Serving
  /\ c.h = "execute-graphql" /\ c.pc = "post"
  /\ \/ \E e \in Thrown \cup {ErrSyntax} :
          inv' = [inv EXCEPT ![i] = Return(Threw(c, e), Caught("Error: ", ErrorText(e), "", TRUE))]
     \/ \E response \in Statuses, result \in GraphQLResults :
          inv' = [inv EXCEPT ![i] =
            IF ~Ok(response)
            THEN Return(Responded(c, response, NoBody), Content("Error executing GraphQL query: " \o StatusLine(response)))
            ELSE Return(Responded(c, response, result), Stringified(result, "Error: ", "", TRUE))]
  /\ UNCHANGED <<cfgVars, proc, calls, engineVars>>

\* the query string of a resource URI, from its parameters in order
RECURSIVE SearchString(_, _, _)
SearchString(names, params, first) ==
  IF Len(names) = 0 THEN ""
  ELSE LET o == params[names[1]] IN
       (IF o.some THEN (IF first THEN "?" ELSE "&") \o names[1] \o "=" \o o.v ELSE "")
         \o SearchString(Tail(names), params, first /\ ~o.some)

VariablesParams == {None, Some(""), Some("{\"first\": 5}"), Some("null"), Some("{first")}

JSONParseLenient(text) ==
  CASE text = "{\"first\": 5}" -> [threw |-> FALSE, value |-> JObj(<<"first">>, <<JNum(5)>>)]
    [] OTHER -> [threw |-> FALSE, value |-> JNull]

\* JSON.parse of the texts of VariablesParams
JSONParse(text) ==
  CASE text = "{\"first\": 5}" -> [threw |-> FALSE, value |-> JObj(<<"first">>, <<JNum(5)>>)]
    [] text = "null" -> [threw |-> FALSE, value |-> JNull]
    [] OTHER -> [threw |-> TRUE, value |-> Undefined]

GraphQLResource_Read(i) ==
  /\ variant \in {"full", "sizecheck"}
  /\ CanDispatch(i)
  /\ \E query \in GraphQLQueries, variablesParam \in VariablesParams,
        operationNameParam \in OperationNames :
       LET search == [variables |-> variablesParam, operationName |-> operationNameParam]
           href == "graphql://" \o query
                     \o SearchString(<<"variables", "operationName">>, search, TRUE)
           arg == [query |-> query, search |-> search]
           entry == Begin("graphql", arg, href, "entry", NoArg, <<>>)
           parsed == JSONParse(variablesParam.v)
       IN
       inv' = [inv EXCEPT ![i] =
         IF query = ""
         THEN Return(entry, Contents(href, "Error: Missing GraphQL query"))
         ELSE IF Truthy(variablesParam) /\ parsed.threw
         THEN Return(entry, Contents(href, "Error: Invalid JSON in variables parameter"))
         ELSE [entry EXCEPT !.pc = "post",
                 !.reqs = <<Request("POST", gatewayUrl \o "/graphql", "",
                              GraphQLBody(query,
                                IF Truthy(variablesParam) THEN parsed.value ELSE Undefined,
                                OptString(operationNameParam)))>>]]
  /\ calls' = calls + 1
  /\ UNCHANGED <<cfgVars, proc, engineVars>>

GraphQLResource_Post(i) ==
  LET c == inv[i] IN
  /\ variant \in {"full", "sizecheck"}
  /\ Serving
  /\ c.h = "graphql" /\ c.pc = "post"
  /\ \/ \E e \in Thrown \cup {ErrSyntax} :
          inv' = [inv EXCEPT ![i] = Return(Threw(c, e), Caught("Error: ", ErrorText(e), c.href, FALSE))]
     \/ \E response \in Statuses, result \in GraphQLResults :
          inv' = [inv EXCEPT ![i] =
            IF ~Ok(response)
            THEN Return(Responded(c, response, NoBody), Contents(c.href, "Error executing GraphQL query: "
                                              \o StatusLine(response)))
            ELSE Return(Responded(c, response, result), Stringified(result, "Error: ", c.href, FALSE))]
  /\ UNCHANGED <<cfgVars, proc, calls, engineVars>>

(* Gateway registry and ArNS registry (ARIO client) *)
DefaultLimit == 100

NoNum == [some |-> FALSE, v |-> 0]

\* the number of gateways the registry holds: more than the default page size
RegistrySize == 101

AllGateways ==
  [k \in 1..RegistrySize |->
     JObj(<<"gatewayAddress", "status">>, <<JStr("gw-" \o NatToString(k)), JStr("joined")>>)]

Min(a, b) == IF a < b THEN a ELSE b

\* the pages getGateways({ limit }) can answer with: no more than limit items
GatewayPages(limit) ==
  { SubSeq(AllGateways, 1, k) : k \in {0, Min(limit, Len(AllGateways))} }

ArNSResults ==
  { JObj(<<"items", "hasMore">>, <<JArr(<<>>), JBool(FALSE)>>),
    JObj(<<"items", "hasMore", "nextCursor">>,
         <<JArr(<<JObj(<<"name", "processId">>, <<JStr("ardrive"), JStr("p1")>>)>>),
           JBool(TRUE), JStr("ardrive")>>) }

NetworksAndDevnet == {"mainnet", "testnet", "devnet"}

Networks == {"mainnet", "testnet"}

ToolNetworks == {None, Some("mainnet"), Some("testnet"), Some("devnet")}
ToolLimits == {NoNum, Some(2), Some(5), Some(0), Some(-1)}

\* ARIO.mainnet() / ARIO.testnet(); index.ts builds the mainnet client with ARIO.init
ArioClient(network) ==
  IF network = "mainnet"
  THEN (IF variant = "sizecheck" THEN "ARIO.init" ELSE "ARIO.mainnet")
  ELSE "ARIO.testnet"

LimitDefaultOnly(limit) == DefaultLimit

\* limit || 100
LimitOrDefault(limit) == IF limit.some /\ limit.v # 0 THEN limit.v ELSE DefaultLimit

ListGateways_Call(i) ==
  /\ variant \in {"full", "sizecheck"}
  /\ CanDispatch(i)
  /\ \E network \in ToolNetworks, limit \in ToolLimits :
       LET arg == [network |-> network, limit |-> limit] IN
       inv' = [inv EXCEPT ![i] =
         IF network.some /\ network.v \notin Networks
         THEN Rejected("list-gateways", arg, "Invalid enum value")
         ELSE IF limit.some /\ ~(limit.v > 0)
         THEN Rejected("list-gateways", arg, "Number must be greater than 0")
         ELSE Begin("list-gateways", arg, "", "getGateways",
                    [limit |-> LimitOrDefault(limit)],
                    <<Request("getGateways", ArioClient(OrElse(network, "mainnet")), "",
                              JObj(<<"limit">>, <<JNum(LimitOrDefault(limit))>>))>>)]
  /\ calls' = calls + 1
  /\ UNCHANGED <<cfgVars, proc, engineVars>>

ListGateways_GetGateways(i) ==
  LET c == inv[i] IN
  /\ variant \in {"full", "sizecheck"}
  /\ Serving
  /\ c.h = "list-gateways" /\ c.pc = "getGateways"
  /\ \/ \E e \in Thrown :
          inv' = [inv EXCEPT ![i] = Return(Threw(c, e), Caught("Error: ", ErrorText(e), "", TRUE))]
     \/ \E items \in GatewayPages(c.loc.limit) :
          inv' = [inv EXCEPT ![i] = Return(Resolved(c, JArr(items)), Stringified(JArr(items), "Error: ", "", TRUE))]
  /\ UNCHANGED <<cfgVars, proc, calls, engineVars>>

ResourceNetworks == {"", "mainnet", "testnet", "devnet", "Mainnet"}
LimitParams == {None, Some("5"), Some("2"), Some("abc"), Some("0"), Some("-3")}

\* limitParam ? parseInt(limitParam, 10) : undefined
\* (limit && !isNaN(limit) && limit > 0) ? limit : 100
ValidLimitUnchecked(limitParam) ==
  IF Truthy(limitParam) THEN parseInt(limitParam.v).v ELSE DefaultLimit

\* const validLimit = (limit && !isNaN(limit) && limit > 0) ? limit : 100
ValidLimit(limitParam) ==
  LET limit == IF Truthy(limitParam) THEN Some(parseInt(limitParam.v)) ELSE None IN
  IF limit.some /\ NumTruthy(limit.v) /\ ~limit.v.nan /\ NumGt(limit.v, 0)
  THEN limit.v.v ELSE DefaultLimit

InvalidNetworkText == "Error: Invalid network. Must be one of: mainnet, testnet"

GatewaysResource_Read(i) ==
  /\ variant \in {"full", "sizecheck"}
  /\ CanDispatch(i)
  /\ \E networkVar \in ResourceNetworks, limitParam \in LimitParams :
       LET search == [limit |-> limitParam]
           href == "gateways://" \o networkVar \o SearchString(<<"limit">>, search, TRUE)
           arg == [network |-> networkVar, search |-> search]
           network == IF networkVar # "" THEN networkVar ELSE "mainnet"
           entry == Begin("gateways", arg, href, "entry", NoArg, <<>>)
       IN
       inv' = [inv EXCEPT ![i] =
         IF network \notin Networks
         THEN Return(entry, Contents(href, InvalidNetworkText))
         ELSE [entry EXCEPT !.pc = "getGateways",
                 !.loc = [limit |-> ValidLimit(limitParam)],
                 !.reqs = <<Request("getGateways",
                              IF network = "mainnet" THEN "ARIO.mainnet" ELSE "ARIO.testnet",
                              "", JObj(<<"limit">>, <<JNum(ValidLimit(limitParam))>>))>>]]
  /\ calls' = calls + 1
  /\ UNCHANGED <<cfgVars, proc, engineVars>>

GatewaysResource_GetGateways(i) ==
  LET c == inv[i] IN
  /\ variant \in {"full", "sizecheck"}
  /\ Serving
  /\ c.h = "gateways" /\ c.pc = "getGateways"
  /\ \/ \E e \in Thrown :
          inv' = [inv EXCEPT ![i] = Return(Threw(c, e), Caught("Error: ", ErrorText(e), c.href, FALSE))]
     \/ \E items \in GatewayPages(c.loc.limit) :
          inv' = [inv EXCEPT ![i] =
            Return(Resolved(c, JArr(items)), Stringified(JArr(items), "Error: ", c.href, FALSE))]
  /\ UNCHANGED <<cfgVars, proc, calls, engineVars>>

ToolSortFields ==
  {"name", "type", "processId", "startTimestamp", "undernameLimit", "purchasePrice",
   "endTimestamp"}
ResourceSortFields == {"height", "nameHeight", "lastUpdateHeight"}
SortOrders == {"asc", "desc"}

Cursors == {None, Some("ardrive")}
SortByInputs == {None, Some("name"), Some("endTimestamp"), Some("height"), Some("bogus")}
SortOrderInputs == {None, Some("asc"), Some("sideways")}
ArNSToolLimits == {NoNum, Some(5), Some(0), Some(-1)}

\* a declared optional string reaches the handler as given ("" included)
Declared(o) == IF o.some THEN JStr(o.v) ELSE Undefined

GetArNSRecords_Call(i) ==
  /\ variant = "full"
  /\ CanDispatch(i)
  /\ \E cursor \in Cursors, limit \in ArNSToolLimits, sortBy \in SortByInputs,
        sortOrder \in SortOrderInputs :
       LET arg == [cursor |-> cursor, limit |-> limit, sortBy |-> sortBy,
                   sortOrder |-> sortOrder] IN
       inv' = [inv EXCEPT ![i] =
         IF limit.some /\ ~(limit.v > 0)
         THEN Rejected("get-arns-records", arg, "Number must be greater than 0")
         ELSE IF sortBy.some /\ sortBy.v \notin ToolSortFields
         THEN Rejected("get-arns-records", arg, "Invalid enum value")
         ELSE IF sortOrder.some /\ sortOrder.v \notin SortOrders
         THEN Rejected("get-arns-records", arg, "Invalid enum value")
         ELSE Begin("get-arns-records", arg, "", "getArNSRecords", NoArg,
                    <<Request("getArNSRecords", "ARIO.mainnet", "",
                        ObjectOf(<<"cursor", "limit", "sortBy", "sortOrder">>,
                                 <<Declared(cursor), JNum(LimitOrDefault(limit)),
                                   Declared(sortBy), Declared(sortOrder)>>))>>)]
  /\ calls' = calls + 1
  /\ UNCHANGED <<cfgVars, proc, engineVars>>

GetArNSRecords_GetArNSRecords(i) ==
  LET c == inv[i] IN
  /\ variant = "full"
  /\ Serving
  /\ c.h = "get-arns-records" /\ c.pc = "getArNSRecords"
  /\ \/ \E e \in Thrown :
          inv' = [inv EXCEPT ![i] =
            Return(Threw(c, e), Caught("Error retrieving ArNS records: ", ErrorText(e), "", TRUE))]
     \/ \E arnsRecordsResult \in ArNSResults :
          inv' = [inv EXCEPT ![i] =
            Return(Resolved(c, arnsRecordsResult), Stringified(arnsRecordsResult, "Error retrieving ArNS records: ",
                                  "", TRUE))]
  /\ UNCHANGED <<cfgVars, proc, calls, engineVars>>

ArNSLimitParams == {None, Some("5"), Some("abc"), Some("0"), Some("-3")}
ArNSNetworks == {"", "testnet", "devnet", "Mainnet"}

ArNSResource_Read(i) ==
  /\ variant = "full"
  /\ CanDispatch(i)
  /\ \E networkVar \in ArNSNetworks, cursor \in Cursors, limitParam \in ArNSLimitParams,
        sortBy \in SortByInputs, sortOrder \in SortOrderInputs :
       LET search == [cursor |-> cursor, limit |-> limitParam, sortBy |-> sortBy,
                      sortOrder |-> sortOrder]
           href == "arns://" \o networkVar
                     \o SearchString(<<"cursor", "limit", "sortBy", "sortOrder">>, search, TRUE)
           arg == [network |-> networkVar, search |-> search]
           network == IF networkVar # "" THEN networkVar ELSE "mainnet"
           entry == Begin("arns", arg, href, "entry", NoArg, <<>>)
       IN
       inv' = [inv EXCEPT ![i] =
         IF network \notin Networks
         THEN Return(entry, Contents(href, InvalidNetworkText))
         ELSE IF Truthy(sortBy) /\ sortBy.v \notin ResourceSortFields
         THEN Return(entry, Contents(href,
                "Error: Invalid sortBy parameter. Must be one of: height, nameHeight, lastUpdateHeight"))
         ELSE IF Truthy(sortOrder) /\ sortOrder.v \notin SortOrders
         THEN Return(entry, Contents(href,
                "Error: Invalid sortOrder parameter. Must be one of: asc, desc"))
         ELSE [entry EXCEPT !.pc = "getArNSRecords",
                 !.reqs = <<Request("getArNSRecords",
                              IF network = "mainnet" THEN "ARIO.mainnet" ELSE "ARIO.testnet",
                              "",
                              ObjectOf(<<"cursor", "limit", "sortBy", "sortOrder">>,
                                <<OptString(cursor), JNum(ValidLimit(limitParam)),
                                  (IF sortBy.some THEN JStr(sortBy.v) ELSE JNull),
                                  (IF sortOrder.some THEN JStr(sortOrder.v) ELSE JNull)>>))>>]]
  /\ calls' = calls + 1
  /\ UNCHANGED <<cfgVars, proc, engineVars>>

ArNSResource_GetArNSRecords(i) ==
  LET c == inv[i] IN
  /\ variant = "full"
  /\ Serving
  /\ c.h = "arns" /\ c.pc = "getArNSRecords"
  /\ \/ \E e \in Thrown :
          inv' = [inv EXCEPT ![i] = Return(Threw(c, e), Caught("Error: ", ErrorText(e), c.href, FALSE))]
     \/ \E arnsRecordsResult \in ArNSResults :
          inv' = [inv EXCEPT ![i] =
            Return(Resolved(c, arnsRecordsResult), Stringified(arnsRecordsResult, "Error: ", c.href, FALSE))]
  /\ UNCHANGED <<cfgVars, proc, calls, engineVars>>

(* ANT (token client) *)
ProcessIdMin == 43

ProcessIds == {"", Rep("p", 42), Rep("p", 43), Rep("q", 44)}

AntValues == { JObj(<<"Name", "Ticker">>, <<JStr("ArDrive"), JStr("ANT-ARDRIVE")>>) }

AntRecords ==
  { Undefined,
    JObj(<<"transactionId", "ttlSeconds">>, <<JStr("tx-1"), JNum(3600)>>) }

Undernames == {"", "www", "Error"}

\* ANT.init({ processId }): the handle, named by the process it reads
AntHandle(processId) == "ANT:" \o processId

\* a module-level cache of handles, one per process
AntInitCached(processId) == [processId |-> processId, id |-> 0]

\* const ant = ANT.init({ processId }): a new client object, distinct from every
\* one made before (an invocation makes at most one, when it is dispatched)
AntInit(processId) == [processId |-> processId, id |-> calls + 1]

\* ant.method(...): the call is made on the handle ant
CallOn(ant, method, body) ==
  [method |-> method, url |-> AntHandle(ant.processId), range |-> "", body |-> body,
   on |-> ant]

NoRecordErrorText(undername) == "Error: No record found for undername \"" \o undername \o "\""
NoRecordText(undername) == "No record found for undername \"" \o undername \o "\""

\* the tools get-ant-info, get-ant-state and get-ant-records differ in the client
\* method they call and in the prefix of their error text
AntTool_Call(i, tool, method) ==
  /\ variant = "full"
  /\ CanDispatch(i)
  /\ \E processId \in ProcessIds :
       inv' = [inv EXCEPT ![i] =
         IF Len(processId) < ProcessIdMin
         THEN Rejected(tool, [processId |-> processId],
                       "Process ID must be an Arweave transaction ID")
         ELSE LET ant == AntInit(processId) IN
              Begin(tool, [processId |-> processId], "", method, [ant |-> ant],
                    <<CallOn(ant, method, NoBody)>>)]
  /\ calls' = calls + 1
  /\ UNCHANGED <<cfgVars, proc, engineVars>>

AntTool_Answer(i, tool, method, prefix) ==
  LET c == inv[i] IN
  /\ variant = "full"
  /\ Serving
  /\ c.h = tool /\ c.pc = method
  /\ \/ \E e \in Thrown :
          inv' = [inv EXCEPT ![i] = Return(Threw(c, e), Caught(prefix, ErrorText(e), "", TRUE))]
     \/ \E result \in AntValues :
          inv' = [inv EXCEPT ![i] = Return(Resolved(c, result), Stringified(result, prefix, "", TRUE))]
  /\ UNCHANGED <<cfgVars, proc, calls, engineVars>>

GetAntInfo_Call(i) == AntTool_Call(i, "get-ant-info", "getInfo")
GetAntInfo_GetInfo(i) ==
  AntTool_Answer(i, "get-ant-info", "getInfo", "Error fetching ANT info: ")

GetAntState_Call(i) == AntTool_Call(i, "get-ant-state", "getState")
GetAntState_GetState(i) ==
  AntTool_Answer(i, "get-ant-state", "getState", "Error fetching ANT state: ")

GetAntRecords_Call(i) == AntTool_Call(i, "get-ant-records", "getRecords")
GetAntRecords_GetRecords(i) ==
  AntTool_Answer(i, "get-ant-records", "getRecords", "Error fetching ANT records: ")

GetAntRecord_Call(i) ==
  /\ variant = "full"
  /\ CanDispatch(i)
  /\ \E processId \in ProcessIds, undername \in Undernames :
       LET arg == [processId |-> processId, undername |-> undername] IN
       inv' = [inv EXCEPT ![i] =
         IF Len(processId) < ProcessIdMin
         THEN Rejected("get-ant-record", arg, "Process ID must be an Arweave transaction ID")
         ELSE IF Len(undername) < 1
         THEN Rejected("get-ant-record", arg, "Undername is required")
         ELSE LET ant == AntInit(processId) IN
              Begin("get-ant-record", arg, "", "getRecord", [ant |-> ant],
                    <<CallOn(ant, "getRecord", JObj(<<"undername">>, <<JStr(undername)>>))>>)]
  /\ calls' = calls + 1
  /\ UNCHANGED <<cfgVars, proc, engineVars>>

GetAntRecord_GetRecord(i) ==
  LET c == inv[i] IN
  /\ variant = "full"
  /\ Serving
  /\ c.h = "get-ant-record" /\ c.pc = "getRecord"
  /\ \/ \E e \in Thrown :
          inv' = [inv EXCEPT ![i] =
            Return(Threw(c, e), Caught("Error fetching ANT record: ", ErrorText(e), "", TRUE))]
     \/ \E record \in AntRecords :
          inv' = [inv EXCEPT ![i] =
            IF record.t = "undefined"
            THEN Return(Resolved(c, record), Content(NoRecordText(c.arg.undername)))
            ELSE Return(Resolved(c, record), Stringified(record, "Error fetching ANT record: ", "", TRUE))]
  /\ UNCHANGED <<cfgVars, proc, calls, engineVars>>

AntVersions ==
  { JObj(<<"1">>, <<JObj(<<"moduleId", "notes">>, <<JStr("m-1"), JStr("first")>>)>>) }

\* get-ant-versions and get-latest-ant-version read the static ANT.versions registry
VersionsTool_Call(i, tool, method) ==
  /\ variant = "full"
  /\ CanDispatch(i)
  /\ inv' = [inv EXCEPT ![i] =
       Begin(tool, NoArg, "", method, NoArg,
             <<Request(method, "ANT.versions", "", NoBody)>>)]
  /\ calls' = calls + 1
  /\ UNCHANGED <<cfgVars, proc, engineVars>>

VersionsTool_Answer(i, tool, method, prefix) ==
  LET c == inv[i] IN
  /\ variant = "full"
  /\ Serving
  /\ c.h = tool /\ c.pc = method
  /\ \/ \E e \in Thrown :
          inv' = [inv EXCEPT ![i] = Return(Threw(c, e), Caught(prefix, ErrorText(e), "", TRUE))]
     \/ \E versions \in AntVersions :
          inv' = [inv EXCEPT ![i] = Return(Resolved(c, versions), Stringified(versions, prefix, "", TRUE))]
  /\ UNCHANGED <<cfgVars, proc, calls, engineVars>>

GetAntVersions_Call(i) == VersionsTool_Call(i, "get-ant-versions", "getANTVersions")
GetAntVersions_Answer(i) ==
  VersionsTool_Answer(i, "get-ant-versions", "getANTVersions",
                      "Error fetching ANT versions: ")

GetLatestAntVersion_Call(i) ==
  VersionsTool_Call(i, "get-latest-ant-version", "getLatestANTVersion")
GetLatestAntVersion_Answer(i) ==
  VersionsTool_Answer(i, "get-latest-ant-version", "getLatestANTVersion",
                      "Error fetching latest ANT version: ")

VersionsResource_Read(i, name, href, method) ==
  /\ variant = "full"
  /\ CanDispatch(i)
  /\ inv' = [inv EXCEPT ![i] =
       Begin(name, NoArg, href, method, NoArg,
             <<Request(method, "ANT.versions", "", NoBody)>>)]
  /\ calls' = calls + 1
  /\ UNCHANGED <<cfgVars, proc, engineVars>>

VersionsResource_Answer(i, name, method) ==
  LET c == inv[i] IN
  /\ variant = "full"
  /\ Serving
  /\ c.h = name /\ c.pc = method
  /\ \/ \E e \in Thrown :
          inv' = [inv EXCEPT ![i] = Return(Threw(c, e), Caught("Error: ", ErrorText(e), c.href, FALSE))]
     \/ \E versions \in AntVersions :
          inv' = [inv EXCEPT ![i] = Return(Resolved(c, versions), Stringified(versions, "Error: ", c.href, FALSE))]
  /\ UNCHANGED <<cfgVars, proc, calls, engineVars>>

AntVersionsResource_Read(i) ==
  VersionsResource_Read(i, "ant-versions", "ant://versions", "getANTVersions")
AntVersionsResource_Answer(i) ==
  VersionsResource_Answer(i, "ant-versions", "getANTVersions")

AntLatestVersionResource_Read(i) ==
  VersionsResource_Read(i, "ant-latest-version", "ant://latest-version",
                        "getLatestANTVersion")
AntLatestVersionResource_Answer(i) ==
  VersionsResource_Answer(i, "ant-latest-version", "getLatestANTVersion")

(* Resource ant://{processId}/{action} *)
AntActions ==
  <<"info", "state", "records", "record", "owner", "controllers", "name", "ticker",
    "balances", "logo">>

AntMethods ==
  <<"getInfo", "getState", "getRecords", "getRecord", "getOwner", "getControllers",
    "getName", "getTicker", "getBalances", "getLogo">>

IsAntAction(action) == \E k \in 1..Len(AntActions) : AntActions[k] = action

AntMethodInfo(action) == "getInfo"

\* the case of the switch that handles the action: the client method it calls
AntMethod(action) == AntMethods[CHOOSE k \in 1..Len(AntActions) : AntActions[k] = action]

InvalidActionText(action) ==
  "Error: Invalid action \"" \o action
    \o "\". Valid actions are: info, state, records, record, owner, controllers, name, ticker, balances, logo"

ActionInputs == {""} \cup {AntActions[k] : k \in 1..Len(AntActions)} \cup {"bogus", "Info"}
ResourceProcessIds == {"", Rep("p", 43)}
UndernameParams == {None, Some(""), Some("www")}

ActionAsGiven(actionVar) == actionVar

\* const action = (variables.action as string) || "info"
ActionOrInfo(actionVar) == IF actionVar # "" THEN actionVar ELSE "info"

AntResource_Read(i) ==
  /\ variant = "full"
  /\ CanDispatch(i)
  /\ \E processId \in ResourceProcessIds, actionVar \in ActionInputs,
        undernameParam \in UndernameParams :
       LET search == [undername |-> undernameParam]
           href == "ant://" \o processId \o "/" \o actionVar
                     \o SearchString(<<"undername">>, search, TRUE)
           arg == [processId |-> processId, action |-> actionVar, search |-> search]
           action == ActionOrInfo(actionVar)
           entry == Begin("ant", arg, href, "entry", [action |-> action], <<>>)
           ant == AntInit(processId)
           made == [entry EXCEPT !.loc = [action |-> action, ant |-> ant]]
       IN
       inv' = [inv EXCEPT ![i] =
         IF processId = ""
         THEN Return(entry, Contents(href, "Error: Missing ANT process ID"))
         ELSE IF ~IsAntAction(action)
         THEN Return(made, Contents(href, InvalidActionText(action)))
         ELSE IF action = "record" /\ ~Truthy(undernameParam)
         THEN Return(made, Contents(href,
                       "Error: Missing undername parameter for record action"))
         ELSE [made EXCEPT !.pc = AntMethod(action),
                 !.reqs = <<CallOn(ant, AntMethod(action),
                              IF action = "record"
                              THEN JObj(<<"undername">>, <<JStr(undernameParam.v)>>)
                              ELSE NoBody)>>]]
  /\ calls' = calls + 1
  /\ UNCHANGED <<cfgVars, proc, engineVars>>

AntResource_Answer(i) ==
  LET c == inv[i] IN
  /\ variant = "full"
  /\ Serving
  /\ c.h = "ant" /\ c.pc \notin {"idle", "done"}
  /\ \/ \E e \in Thrown :
          inv' = [inv EXCEPT ![i] = Return(Threw(c, e), Caught("Error: ", ErrorText(e), c.href, FALSE))]
     \/ \E result \in (IF c.pc = "getRecord" THEN AntRecords ELSE AntValues) :
          inv' = [inv EXCEPT ![i] =
            IF c.pc = "getRecord" /\ result.t = "undefined"
            THEN Return(Resolved(c, result), Contents(c.href, NoRecordText(c.arg.search.undername.v)))
            ELSE Return(Resolved(c, result), Stringified(result, "Error: ", c.href, FALSE))]
  /\ UNCHANGED <<cfgVars, proc, calls, engineVars>>

(* Parquet queries (DuckDB) *)
parquetDirectory == "/srv/data/parquet/tags"

ViewStatement ==
  "CREATE VIEW IF NOT EXISTS tags AS SELECT * FROM read_parquet('"
    \o parquetDirectory \o "/*.parquet');"

ErrEngine == [t |-> "Error", message |-> "IO Error: No files found that match the pattern"]
EngineErrors == {ErrEngine, ErrUndefined}

Big0 == JBig(FALSE, <<0>>)
Big42 == JBig(FALSE, <<42>>)
\* 2^53 + 1, the first integer a JSON number cannot carry
BigUnsafe == JBig(FALSE, <<993, 740, 254, 199, 7, 9>>)
\* -2^63
BigMin == JBig(TRUE, <<808, 775, 854, 36, 372, 223, 9>>)

QueryResults ==
  { <<>>,
    << JObj(<<"name", "height">>, <<JStr("App-Name"), JNum(7)>>) >>,
    << JObj(<<"id", "total">>, <<JStr("a"), BigUnsafe>>),
       JObj(<<"id", "total">>, <<JStr("b"), Big0>>) >>,
    << JObj(<<"h", "tags">>, <<BigMin, JArr(<<Big42, JStr("x"), JNull>>)>>) >> }

SqlQueries ==
  { "", "   ",
    "SELECT * FROM tags",
    "select * from tags limit 5",
    "SELECT * FROM tags LIMIT 5",
    "  SELECT * FROM tags\n",
    " SELECT * FROM tags LIMIT 5 ",
    "SELECT name FROM tags LIMIT ",
    "SELECT rate_limit FROM tags" }

ParquetLimits == {NoNum, Some(5), Some(0)}

QueryWithLimitUntrimmed(query, limitText) ==
  IF ~Includes(ToLowerCase(query), "limit ")
  THEN query \o " LIMIT " \o limitText
  ELSE query

QueryWithLimitCaseSensitive(query, limitText) ==
  LET queryWithLimit == Trim(query) IN
  IF ~Includes(queryWithLimit, "limit ")
  THEN queryWithLimit \o " LIMIT " \o limitText
  ELSE queryWithLimit

\* let queryWithLimit = query.trim();
\* if (!queryWithLimit.toLowerCase().includes("limit ")) queryWithLimit += " LIMIT " + limit
QueryWithLimit(query, limitText) ==
  LET queryWithLimit == Trim(query) IN
  IF ~Includes(ToLowerCase(queryWithLimit), "limit ")
  THEN queryWithLimit \o " LIMIT " \o limitText
  ELSE queryWithLimit

\* duckdbAsync.Database.create(":memory:") answers: a new instance
EngineCreated(c) ==
  /\ dbs' = Append(dbs, [open |-> TRUE, views |-> {}])
  /\ conns' = conns

\* db.connect() answers: a new connection to the instance of this invocation
EngineConnected(c) ==
  /\ conns' = Append(conns, [open |-> TRUE, db |-> c.loc.db])
  /\ dbs' = dbs

EngineViewSkipped(c) == dbs' = dbs /\ conns' = conns

EngineViewCreatedEverywhere(c) ==
  /\ dbs' = [k \in DOMAIN dbs |-> [dbs[k] EXCEPT !.views = @ \cup {"tags"}]]
  /\ conns' = conns

\* CREATE VIEW IF NOT EXISTS tags answers
EngineViewCreated(c) ==
  /\ dbs' = [dbs EXCEPT ![c.loc.db].views = @ \cup {"tags"}]
  /\ conns' = conns

\* conn.close() answers
EngineConnClosed(c) ==
  /\ conns' = [conns EXCEPT ![c.loc.conn].open = FALSE]
  /\ dbs' = dbs

\* db.close() answers
EngineDbClosed(c) ==
  /\ dbs' = [dbs EXCEPT ![c.loc.db].open = FALSE]
  /\ conns' = conns

EngineCall(method, body) == Request(method, "duckdb", "", body)

\* safeStringify({ result, rowCount: result.length, query: queryWithLimit })
QueryPayload(c) ==
  safeStringify(JObj(<<"result", "rowCount", "query">>,
                     <<JArr(c.loc.result), JNum(Len(c.loc.result)),
                       JStr(c.loc.queryWithLimit)>>))

ParquetLoc(queryWithLimit) ==
  [db |-> 0, conn |-> 0, result |-> <<>>, queryWithLimit |-> queryWithLimit]

QueryParquetCaught(c, e) ==
  Caught("Error executing Parquet query: ", ErrorText(e), "", TRUE)

QueryParquetResult(c) ==
  LET r == QueryPayload(c) IN
  IF r.threw THEN QueryParquetCaught(c, r.e) ELSE Content(r.text)

QueryParquetFirst(c) == c.loc.queryWithLimit

ParquetResourceCaught(c, e) == Caught("Error: ", ErrorText(e), c.href, FALSE)

ParquetResourceResult(c) ==
  LET r == QueryPayload(c) IN
  IF r.threw THEN ParquetResourceCaught(c, r.e) ELSE Contents(c.href, r.text)

SchemaCaught(c, e) == Caught("Error getting Parquet schema: ", ErrorText(e), "", TRUE)

SchemaRows ==
  << JObj(<<"column_name", "column_type">>, <<JStr("height"), JStr("BIGINT")>>),
     JObj(<<"column_name", "column_type">>, <<JStr("name"), JStr("VARCHAR")>>) >>

SampleResults ==
  { <<>>, << JObj(<<"height", "name">>, <<BigUnsafe, JStr("App-Name")>>) >> }

CountResults ==
  { <<>>, << JObj(<<"total">>, <<Big0>>) >>, << JObj(<<"total">>, <<BigUnsafe>>) >> }

\* countResult[0]?.total || 0 : no row, or a total of 0n, gives the number 0
TotalRows(countResult) ==
  IF Len(countResult) = 0 THEN JNum(0)
  ELSE LET total == countResult[1].v[1] IN
       IF total.t = "big" /\ total.limbs = <<0>> THEN JNum(0) ELSE total

SchemaResult(c) ==
  LET r == safeStringify(
             JObj(<<"schema", "sampleData", "totalRows", "parquetDirectory">>,
                  <<JArr(SchemaRows), JArr(c.loc.sample), TotalRows(c.loc.countResult),
                    JStr(parquetDirectory)>>))
  IN IF r.threw THEN SchemaCaught(c, r.e) ELSE Content(r.text)

SchemaFirst(c) == "DESCRIBE tags;"

\* the catch block, the first query and the return statement of the handler that
\* runs invocation c
ParquetCaught(c, e) ==
  CASE c.h = "query-parquet" -> QueryParquetCaught(c, e)
    [] c.h = "parquet" -> ParquetResourceCaught(c, e)
    [] OTHER -> SchemaCaught(c, e)

ParquetFirst(c) ==
  CASE c.h = "query-parquet" -> QueryParquetFirst(c)
    [] c.h = "parquet" -> c.loc.queryWithLimit
    [] OTHER -> SchemaFirst(c)

ParquetResult(c) ==
  CASE c.h = "query-parquet" -> QueryParquetResult(c)
    [] c.h = "parquet" -> ParquetResourceResult(c)
    [] OTHER -> SchemaResult(c)

\* The statements every Parquet handler runs before and after its queries.  The
\* catch block of the handler (ParquetCaught) closes nothing.
Parquet_Create(i, h) ==
  LET c == inv[i] IN
  /\ variant = "full"
  /\ Serving
  /\ c.h = h /\ c.pc = "create"
  /\ \/ /\ \E e \in EngineErrors : inv' = [inv EXCEPT ![i] = Return(Threw(c, e), ParquetCaught(c, e))]
        /\ UNCHANGED engineVars
     \/ /\ inv' = [inv EXCEPT ![i] =
                     [Resolved(c, NoBody) EXCEPT !.pc = "connect", !.loc.db = Len(dbs) + 1,
                               !.reqs = Append(@, EngineCall("connect", NoBody))]]
        /\ EngineCreated(c)
  /\ UNCHANGED <<cfgVars, proc, calls>>

Parquet_Connect(i, h) ==
  LET c == inv[i] IN
  /\ variant = "full"
  /\ Serving
  /\ c.h = h /\ c.pc = "connect"
  /\ \/ /\ \E e \in EngineErrors : inv' = [inv EXCEPT ![i] = Return(Threw(c, e), ParquetCaught(c, e))]
        /\ UNCHANGED engineVars
     \/ /\ inv' = [inv EXCEPT ![i] =
                     [Resolved(c, NoBody) EXCEPT !.pc = "exec", !.loc.conn = Len(conns) + 1,
                               !.reqs = Append(@, EngineCall("exec", JStr(ViewStatement)))]]
        /\ EngineConnected(c)
  /\ UNCHANGED <<cfgVars, proc, calls>>

Parquet_Exec(i, h) ==
  LET c == inv[i] IN
  /\ variant = "full"
  /\ Serving
  /\ c.h = h /\ c.pc = "exec"
  /\ \/ /\ \E e \in EngineErrors : inv' = [inv EXCEPT ![i] = Return(Threw(c, e), ParquetCaught(c, e))]
        /\ UNCHANGED engineVars
     \/ /\ inv' = [inv EXCEPT ![i] =
                     [Resolved(c, NoBody) EXCEPT !.pc = "all",
                               !.reqs = Append(@, EngineCall("all", JStr(ParquetFirst(c))))]]
        /\ EngineViewCreated(c)
  /\ UNCHANGED <<cfgVars, proc, calls>>

Parquet_ConnClose(i, h) ==
  LET c == inv[i] IN
  /\ variant = "full"
  /\ Serving
  /\ c.h = h /\ c.pc = "connClose"
  /\ \/ /\ \E e \in EngineErrors : inv' = [inv EXCEPT ![i] = Return(Threw(c, e), ParquetCaught(c, e))]
        /\ UNCHANGED engineVars
     \/ /\ inv' = [inv EXCEPT ![i] =
                     [Resolved(c, NoBody) EXCEPT !.pc = "dbClose",
                               !.reqs = Append(@, EngineCall("db.close", NoBody))]]
        /\ EngineConnClosed(c)
  /\ UNCHANGED <<cfgVars, proc, calls>>

Parquet_DbClose(i, h) ==
  LET c == inv[i] IN
  /\ variant = "full"
  /\ Serving
  /\ c.h = h /\ c.pc = "dbClose"
  /\ \/ /\ \E e \in EngineErrors : inv' = [inv EXCEPT ![i] = Return(Threw(c, e), ParquetCaught(c, e))]
        /\ UNCHANGED engineVars
     \/ /\ inv' = [inv EXCEPT ![i] = Return(Resolved(c, NoBody), ParquetResult(c))]
        /\ EngineDbClosed(c)
  /\ UNCHANGED <<cfgVars, proc, calls>>

\* conn.all(query) of a handler that runs one query
Parquet_All(i, h) ==
  LET c == inv[i] IN
  /\ variant = "full"
  /\ Serving
  /\ c.h = h /\ c.pc = "all"
  /\ \/ \E e \in EngineErrors : inv' = [inv EXCEPT ![i] = Return(Threw(c, e), ParquetCaught(c, e))]
     \/ \E result \in QueryResults :
          inv' = [inv EXCEPT ![i] =
                    [Resolved(c, JArr(result)) EXCEPT !.pc = "connClose", !.loc.result = result,
                              !.reqs = Append(@, EngineCall("conn.close", NoBody))]]
  /\ UNCHANGED <<cfgVars, proc, calls, engineVars>>

(* Tool query-parquet *)
QueryParquet_Call(i) ==
  /\ variant = "full"
  /\ CanDispatch(i)
  /\ \E query \in SqlQueries, limit \in ParquetLimits :
       LET arg == [query |-> query, limit |-> limit] IN
       inv' = [inv EXCEPT ![i] =
         IF Len(query) < 1
         THEN Rejected("query-parquet", arg, "SQL query is required")
         ELSE IF limit.some /\ ~(limit.v > 0)
         THEN Rejected("query-parquet", arg, "Number must be greater than 0")
         ELSE Begin("query-parquet", arg, "", "create",
                ParquetLoc(QueryWithLimit(query,
                  IntToString(IF limit.some THEN limit.v ELSE DefaultLimit))),
                <<EngineCall("create", NoBody)>>)]
  /\ calls' = calls + 1
  /\ UNCHANGED <<cfgVars, proc, engineVars>>

QueryParquet_Create(i) == Parquet_Create(i, "query-parquet")
QueryParquet_Connect(i) == Parquet_Connect(i, "query-parquet")
QueryParquet_Exec(i) ==
  Parquet_Exec(i, "query-parquet")
QueryParquet_All(i) == Parquet_All(i, "query-parquet")
QueryParquet_ConnClose(i) == Parquet_ConnClose(i, "query-parquet")
QueryParquet_DbClose(i) ==
  Parquet_DbClose(i, "query-parquet")

(* Resource parquet://{query} *)
ParquetLimitParams == {None, Some("5"), Some("abc"), Some("-3")}

ParquetResource_Read(i) ==
  /\ variant = "full"
  /\ CanDispatch(i)
  /\ \E query \in SqlQueries, limitParam \in ParquetLimitParams :
       LET search == [limit |-> limitParam]
           href == "parquet://" \o query \o SearchString(<<"limit">>, search, TRUE)
           arg == [query |-> query, search |-> search]
           limit == IF Truthy(limitParam) THEN parseInt(limitParam.v) ELSE Num(DefaultLimit)
           entry == Begin("parquet", arg, href, "entry", NoArg, <<>>)
       IN
       inv' = [inv EXCEPT ![i] =
         IF query = ""
         THEN Return(entry, Contents(href, "Error: Missing SQL query"))
         ELSE [entry EXCEPT !.pc = "create",
                 !.loc = ParquetLoc(QueryWithLimit(query, NumToString(limit))),
                 !.reqs = <<EngineCall("create", NoBody)>>]]
  /\ calls' = calls + 1
  /\ UNCHANGED <<cfgVars, proc, engineVars>>

ParquetResource_Create(i) == Parquet_Create(i, "parquet")
ParquetResource_Connect(i) == Parquet_Connect(i, "parquet")
ParquetResource_Exec(i) ==
  Parquet_Exec(i, "parquet")
ParquetResource_All(i) == Parquet_All(i, "parquet")
ParquetResource_ConnClose(i) == Parquet_ConnClose(i, "parquet")
ParquetResource_DbClose(i) ==
  Parquet_DbClose(i, "parquet")

(* Tool get-parquet-schema *)
GetParquetSchema_Call(i) ==
  /\ variant = "full"
  /\ CanDispatch(i)
  /\ inv' = [inv EXCEPT ![i] =
       Begin("get-parquet-schema", NoArg, "", "create",
             [db |-> 0, conn |-> 0, sample |-> <<>>, countResult |-> <<>>],
             <<EngineCall("create", NoBody)>>)]
  /\ calls' = calls + 1
  /\ UNCHANGED <<cfgVars, proc, engineVars>>

GetParquetSchema_Create(i) == Parquet_Create(i, "get-parquet-schema")
GetParquetSchema_Connect(i) == Parquet_Connect(i, "get-parquet-schema")
GetParquetSchema_Exec(i) ==
  Parquet_Exec(i, "get-parquet-schema")

GetParquetSchema_Describe(i) ==
  LET c == inv[i] IN
  /\ variant = "full"
  /\ Serving
  /\ c.h = "get-parquet-schema" /\ c.pc = "all"
  /\ \/ \E e \in EngineErrors : inv' = [inv EXCEPT ![i] = Return(Threw(c, e), SchemaCaught(c, e))]
     \/ inv' = [inv EXCEPT ![i] =
                  [Resolved(c, JArr(SchemaRows)) EXCEPT !.pc = "sample",
                     !.reqs = Append(@, EngineCall("all", JStr("SELECT * FROM tags LIMIT 5;")))]]
  /\ UNCHANGED <<cfgVars, proc, calls, engineVars>>

GetParquetSchema_Sample(i) ==
  LET c == inv[i] IN
  /\ variant = "full"
  /\ Serving
  /\ c.h = "get-parquet-schema" /\ c.pc = "sample"
  /\ \/ \E e \in EngineErrors : inv' = [inv EXCEPT ![i] = Return(Threw(c, e), SchemaCaught(c, e))]
     \/ \E sample \in SampleResults :
          inv' = [inv EXCEPT ![i] =
                    [Resolved(c, JArr(sample)) EXCEPT !.pc = "count", !.loc.sample = sample,
                       !.reqs = Append(@, EngineCall("all",
                                  JStr("SELECT COUNT(*) as total FROM tags;")))]]
  /\ UNCHANGED <<cfgVars, proc, calls, engineVars>>

GetParquetSchema_Count(i) ==
  LET c == inv[i] IN
  /\ variant = "full"
  /\ Serving
  /\ c.h = "get-parquet-schema" /\ c.pc = "count"
  /\ \/ \E e \in EngineErrors : inv' = [inv EXCEPT ![i] = Return(Threw(c, e), SchemaCaught(c, e))]
     \/ \E countResult \in CountResults :
          inv' = [inv EXCEPT ![i] =
                    [Resolved(c, JArr(countResult)) EXCEPT !.pc = "connClose", !.loc.countResult = countResult,
                       !.reqs = Append(@, EngineCall("conn.close", NoBody))]]
  /\ UNCHANGED <<cfgVars, proc, calls, engineVars>>

GetParquetSchema_ConnClose(i) == Parquet_ConnClose(i, "get-parquet-schema")
GetParquetSchema_DbClose(i) ==
  Parquet_DbClose(i, "get-parquet-schema")


(* The process: server.connect(transport) and the signal handlers *)
Signals == {"SIGINT", "SIGTERM"}

\* the invocations that have been dispatched and have not returned
InFlight == {i \in slots : inv[i].pc \notin {"idle", "done"}}

\* process.exit(code): nothing of the process is left, neither its invocations
\* nor its in-memory engine instances; abandoned: the invocations in flight
Exit(code, log) ==
  /\ proc' = [state |-> "exited", code |-> code, log |-> log, abandoned |-> InFlight]
  /\ inv' = [i \in slots |-> Idle]
  /\ dbs' = <<>>
  /\ conns' = <<>>
  /\ UNCHANGED <<cfgVars, calls>>

\* server.connect(transport) resolves: the server reads requests
Connected ==
  /\ proc.state = "connecting"
  /\ proc' = [proc EXCEPT !.state = "serving"]
  /\ UNCHANGED <<cfgVars, inv, calls, engineVars>>

\* server.connect(transport) rejects: console.error, process.exit(1)
ConnectFailed ==
  /\ proc.state = "connecting"
  /\ Exit(1, "Error connecting server:")

SignalOnceIdle(sig) ==
  /\ proc.state # "exited"
  /\ InFlight = {}
  /\ Exit(0, "Process terminated by " \o sig)

\* process.on(sig): console.error, process.exit(0), whatever is in flight
Signal(sig) ==
  /\ proc.state # "exited"
  /\ Exit(0, "Process terminated by " \o sig)

(* The transport takes the response of a finished invocation *)
Deliver(i) ==
  /\ Serving
  /\ inv[i].pc = "done"
  /\ inv' = [inv EXCEPT ![i] = Idle]
  /\ UNCHANGED <<cfgVars, proc, calls, engineVars>>

Variants == {"full", "sizecheck", "range"}

Init ==
  /\ variant \in Variants
  /\ slots = {1}
  /\ inv = [i \in slots |-> Idle]
  /\ calls = 0
  /\ dbs = <<>>
  /\ conns = <<>>
  /\ proc = [state |-> "connecting", code |-> 0, log |-> "", abandoned |-> {}]

Next ==
  \/ Connected
  \/ ConnectFailed
  \/ \E sig \in Signals : Signal(sig)
  \/ \E i \in slots : FetchRawTransaction_Call(i)
  \/ \E i \in slots : FetchRawTransaction_Head(i)
  \/ \E i \in slots : FetchRawTransaction_Get(i)
  \/ \E i \in slots : TransactionResource_Read(i)
  \/ \E i \in slots : TransactionResource_Head(i)
  \/ \E i \in slots : TransactionResource_Get(i)
  \/ \E i \in slots : RangeFetchRawTransaction_Call(i)
  \/ \E i \in slots : RangeFetchRawTransaction_Get(i)
  \/ \E i \in slots : RangeTransactionResource_Read(i)
  \/ \E i \in slots : RangeTransactionResource_Get(i)
  \/ \E i \in slots : GetGatewayInfo_Call(i)
  \/ \E i \in slots : GetGatewayInfo_Info(i)
  \/ \E i \in slots : GetGatewayInfoByHostname_Call(i)
  \/ \E i \in slots : GetGatewayInfoByHostname_Info(i)
  \/ \E i \in slots : GatewayResource_Read(i)
  \/ \E i \in slots : GatewayResource_Info(i)
  \/ \E i \in slots : ExecuteGraphQL_Call(i)
  \/ \E i \in slots : ExecuteGraphQL_Post(i)
  \/ \E i \in slots : GraphQLResource_Read(i)
  \/ \E i \in slots : GraphQLResource_Post(i)
  \/ \E i \in slots : ListGateways_Call(i)
  \/ \E i \in slots : ListGateways_GetGateways(i)
  \/ \E i \in slots : GatewaysResource_Read(i)
  \/ \E i \in slots : GatewaysResource_GetGateways(i)
  \/ \E i \in slots : GetArNSRecords_Call(i)
  \/ \E i \in slots : GetArNSRecords_GetArNSRecords(i)
  \/ \E i \in slots : ArNSResource_Read(i)
  \/ \E i \in slots : ArNSResource_GetArNSRecords(i)
  \/ \E i \in slots : GetAntInfo_Call(i)
  \/ \E i \in slots : GetAntInfo_GetInfo(i)
  \/ \E i \in slots : GetAntState_Call(i)
  \/ \E i \in slots : GetAntState_GetState(i)
  \/ \E i \in slots : GetAntRecords_Call(i)
  \/ \E i \in slots : GetAntRecords_GetRecords(i)
  \/ \E i \in slots : GetAntRecord_Call(i)
  \/ \E i \in slots : GetAntRecord_GetRecord(i)
  \/ \E i \in slots : GetAntVersions_Call(i)
  \/ \E i \in slots : GetAntVersions_Answer(i)
  \/ \E i \in slots : GetLatestAntVersion_Call(i)
  \/ \E i \in slots : GetLatestAntVersion_Answer(i)
  \/ \E i \in slots : AntVersionsResource_Read(i)
  \/ \E i \in slots : AntVersionsResource_Answer(i)
  \/ \E i \in slots : AntLatestVersionResource_Read(i)
  \/ \E i \in slots : AntLatestVersionResource_Answer(i)
  \/ \E i \in slots : AntResource_Read(i)
  \/ \E i \in slots : AntResource_Answer(i)
  \/ \E i \in slots : QueryParquet_Call(i)
  \/ \E i \in slots : QueryParquet_Create(i)
  \/ \E i \in slots : QueryParquet_Connect(i)
  \/ \E i \in slots : QueryParquet_Exec(i)
  \/ \E i \in slots : QueryParquet_All(i)
  \/ \E i \in slots : QueryParquet_ConnClose(i)
  \/ \E i \in slots : QueryParquet_DbClose(i)
  \/ \E i \in slots : ParquetResource_Read(i)
  \/ \E i \in slots : ParquetResource_Create(i)
  \/ \E i \in slots : ParquetResource_Connect(i)
  \/ \E i \in slots : ParquetResource_Exec(i)
  \/ \E i \in slots : ParquetResource_All(i)
  \/ \E i \in slots : ParquetResource_ConnClose(i)
  \/ \E i \in slots : ParquetResource_DbClose(i)
  \/ \E i \in slots : GetParquetSchema_Call(i)
  \/ \E i \in slots : GetParquetSchema_Create(i)
  \/ \E i \in slots : GetParquetSchema_Connect(i)
  \/ \E i \in slots : GetParquetSchema_Exec(i)
  \/ \E i \in slots : GetParquetSchema_Describe(i)
  \/ \E i \in slots : GetParquetSchema_Sample(i)
  \/ \E i \in slots : GetParquetSchema_Count(i)
  \/ \E i \in slots : GetParquetSchema_ConnClose(i)
  \/ \E i \in slots : GetParquetSchema_DbClose(i)
  \/ \E i \in slots : Deliver(i)

Spec == Init /\ [][Next]_vars

(* Two invocations in flight at a time: a handler that runs the engine statements
   of every Parquet handler (create, connect, view, queries, close) and a handler
   that fetches *)
InitConcurrent ==
  /\ variant = "full"
  /\ slots = {1, 2}
  /\ inv = [i \in slots |-> Idle]
  /\ calls = 0
  /\ dbs = <<>>
  /\ conns = <<>>
  /\ proc = [state |-> "connecting", code |-> 0, log |-> "", abandoned |-> {}]

NextConcurrent ==
  \/ Connected
  \/ ConnectFailed
  \/ \E sig \in Signals : Signal(sig)
  \/ \E i \in slots : GetGatewayInfo_Call(i)
  \/ \E i \in slots : GetGatewayInfo_Info(i)
  \/ \E i \in slots : GetParquetSchema_Call(i)
  \/ \E i \in slots : GetParquetSchema_Create(i)
  \/ \E i \in slots : GetParquetSchema_Connect(i)
  \/ \E i \in slots : GetParquetSchema_Exec(i)
  \/ \E i \in slots : GetParquetSchema_Describe(i)
  \/ \E i \in slots : GetParquetSchema_Sample(i)
  \/ \E i \in slots : GetParquetSchema_Count(i)
  \/ \E i \in slots : GetParquetSchema_ConnClose(i)
  \/ \E i \in slots : GetParquetSchema_DbClose(i)
  \/ \E i \in slots : Deliver(i)

SpecConcurrent == InitConcurrent /\ [][NextConcurrent]_vars

\* The transaction fetch side by side: a tool call in slot 1 and a read of its
\* resource twin in slot 2 of one server, in each variant
InitTwins ==
  /\ variant \in Variants
  /\ slots = {1, 2}
  /\ inv = [i \in slots |-> Idle]
  /\ calls = 0
  /\ dbs = <<>>
  /\ conns = <<>>
  /\ proc = [state |-> "connecting", code |-> 0, log |-> "", abandoned |-> {}]

NextTwins ==
  \/ Connected
  \/ ConnectFailed
  \/ \E sig \in Signals : Signal(sig)
  \/ FetchRawTransaction_Call(1)
  \/ FetchRawTransaction_Head(1)
  \/ FetchRawTransaction_Get(1)
  \/ RangeFetchRawTransaction_Call(1)
  \/ RangeFetchRawTransaction_Get(1)
  \/ TransactionResource_Read(2)
  \/ TransactionResource_Head(2)
  \/ TransactionResource_Get(2)
  \/ RangeTransactionResource_Read(2)
  \/ RangeTransactionResource_Get(2)
  \/ \E i \in slots : Deliver(i)

SpecTwins == InitTwins /\ [][NextTwins]_vars

\* The ANT operations that take a process identifier, two invocations in flight
InitAnts ==
  /\ variant = "full"
  /\ slots = {1, 2}
  /\ inv = [i \in slots |-> Idle]
  /\ calls = 0
  /\ dbs = <<>>
  /\ conns = <<>>
  /\ proc = [state |-> "connecting", code |-> 0, log |-> "", abandoned |-> {}]

NextAnts ==
  \/ Connected
  \/ ConnectFailed
  \/ \E sig \in Signals : Signal(sig)
  \/ \E i \in slots : GetAntInfo_Call(i)
  \/ \E i \in slots : GetAntInfo_GetInfo(i)
  \/ \E i \in slots : GetAntState_Call(i)
  \/ \E i \in slots : GetAntState_GetState(i)
  \/ \E i \in slots : GetAntRecords_Call(i)
  \/ \E i \in slots : GetAntRecords_GetRecords(i)
  \/ \E i \in slots : GetAntRecord_Call(i)
  \/ \E i \in slots : GetAntRecord_GetRecord(i)
  \/ \E i \in slots : AntResource_Read(i)
  \/ \E i \in slots : AntResource_Answer(i)
  \/ \E i \in slots : Deliver(i)

SpecAnts == InitAnts /\ [][NextAnts]_vars

\* The size-checking fetch-raw-transaction against a gateway whose GET may answer
\* a body over the limit
InitOversize ==
  /\ variant \in {"full", "sizecheck"}
  /\ slots = {1}
  /\ inv = [i \in slots |-> Idle]
  /\ calls = 0
  /\ dbs = <<>>
  /\ conns = <<>>
  /\ proc = [state |-> "connecting", code |-> 0, log |-> "", abandoned |-> {}]

NextOversize ==
  \/ Connected
  \/ ConnectFailed
  \/ \E sig \in Signals : Signal(sig)
  \/ \E i \in slots : FetchRawTransaction_Call(i)
  \/ \E i \in slots : FetchRawTransaction_Head(i)
  \/ \E i \in slots : FetchRawTransaction_GetAnyLength(i)
  \/ \E i \in slots : Deliver(i)

SpecOversize == InitOversize /\ [][NextOversize]_vars

(* Properties *)
Returned(i) == inv[i].pc = "done"

ToolNames ==
  { "fetch-raw-transaction", "get-gateway-info", "get-gateway-info-by-hostname",
    "execute-graphql", "list-gateways", "get-arns-records", "get-ant-info",
    "get-ant-state", "get-ant-records", "get-ant-record", "get-ant-versions",
    "get-latest-ant-version", "query-parquet", "get-parquet-schema" }

OpenConns == {k \in 1..Len(conns) : conns[k].open}
OpenDbs == {k \in 1..Len(dbs) : dbs[k].open}

\* C1: once every Parquet handler invocation has returned, on the success path or
\* on any failure path, no engine connection and no engine instance is open.
C1_AllClosedOnceReturned ==
  (\A i \in slots : inv[i].pc \in {"idle", "done"}) => OpenConns = {} /\ OpenDbs = {}

\* C2: no handler propagates a fault: whatever its external calls answer or throw,
\* a tool that ran returns content[] and a resource that ran returns contents[]
\* carrying the URI of the request.
C2_NoFaultPropagates ==
  \A i \in slots :
    Returned(i) /\ inv[i].resp.kind # "invalid" =>
      IF inv[i].h \in ToolNames
      THEN inv[i].resp.kind = "content"
      ELSE inv[i].resp.kind = "contents" /\ inv[i].resp.uri = inv[i].href

\* the HEAD request of a size-checking transaction fetch was answered 2xx and the
\* handler read a Content-Length that is one of lengths
HeadDeclared(i, lengths) ==
  /\ variant \in {"full", "sizecheck"}
  /\ inv[i].h \in {"fetch-raw-transaction", "transaction"}
  /\ Len(inv[i].ans) >= 1
  /\ inv[i].ans[1].kind = "response"
  /\ inv[i].ans[1].r.status = 200
  /\ inv[i].ans[1].data \in lengths

\* C3: in the size-checking variant (tool and transaction:// resource), a HEAD
\* response that declares a Content-Length above 8192 is answered with the
\* too-large text and the invocation issues no GET; a declared length of exactly
\* 8192 proceeds to the GET of the same URL.
C3_OversizeNeverFetched ==
  \A i \in slots :
    /\ HeadDeclared(i, {Some("8193"), Some("1048576")}) =>
         /\ Returned(i)
         /\ inv[i].resp.kind \in {"content", "contents"}
         /\ inv[i].resp.text = "Error: Transaction data is too large ("
                                 \o inv[i].ans[1].data.v \o " bytes, limit is 8KB)"
         /\ \A k \in 1..Len(inv[i].reqs) : inv[i].reqs[k].method # "GET"
    /\ HeadDeclared(i, {Some("8192")}) =>
         /\ Len(inv[i].reqs) = 2
         /\ inv[i].reqs[2].method = "GET"
         /\ inv[i].reqs[2].url = inv[i].reqs[1].url

C3_OversizeReturned ==
  \E i \in slots :
    /\ HeadDeclared(i, {Some("8193")})
    /\ inv[i].h = "transaction"
    /\ Returned(i)

InvalidTxIds ==
  { "", Rep("a", 42), Rep("a", 44), Rep("a", 42) \o "!", Rep("a", 42) \o "+",
    Rep("a", 21) \o "/" \o Rep("a", 21) }

\* C4: a fetch-raw-transaction call whose txId is not 43 characters of
\* A-Z a-z 0-9 _ - returns the validation-error text and issues no request.
C4_InvalidTxIdRejected ==
  \A i \in slots :
    inv[i].h = "fetch-raw-transaction" /\ inv[i].arg.txId \in InvalidTxIds =>
      /\ Returned(i)
      /\ inv[i].resp.text = "Invalid transaction ID format"
      /\ inv[i].reqs = <<>>
      /\ inv[i].ans = <<>>

C4_InvalidTxIdReturned ==
  \E i \in slots :
    /\ inv[i].h = "fetch-raw-transaction"
    /\ inv[i].arg.txId = Rep("a", 42) \o "!"
    /\ Returned(i)

\* the last answer an invocation got is an HTTP response with a non-2xx status
LastNon2xx(i) ==
  /\ Len(inv[i].ans) >= 1
  /\ inv[i].ans[Len(inv[i].ans)].kind = "response"
  /\ inv[i].ans[Len(inv[i].ans)].r.status \in {404, 500}

StatusCode(r) == IF r.status = 404 THEN "404" ELSE "500"

\* C5: whenever the upstream answers a tool or a resource with a non-2xx status
\* (HEAD or GET of the transaction fetch, gateway info, GraphQL), the handler
\* returns a normal envelope whose text contains the status code and the status
\* text.
C5_Non2xxReported ==
  \A i \in slots :
    LastNon2xx(i) =>
      LET r == inv[i].ans[Len(inv[i].ans)].r IN
      /\ Returned(i)
      /\ inv[i].resp.kind \in {"content", "contents"}
      /\ Includes(inv[i].resp.text, StatusCode(r))
      /\ Includes(inv[i].resp.text, r.statusText)

C5_GetNon2xxReturned ==
  \E i \in slots :
    /\ LastNon2xx(i)
    /\ Len(inv[i].ans) = 2
    /\ inv[i].h = "fetch-raw-transaction"
    /\ inv[i].ans[2].r.status = 404
    /\ Returned(i)

\* a query-parquet invocation has handed its query to the engine (conn.all)
QueryHanded(i) ==
  /\ inv[i].h = "query-parquet"
  /\ Len(inv[i].reqs) >= 4
  /\ inv[i].reqs[4].method = "all"

ExecutedQuery(i) == inv[i].reqs[4].body.s

\* the supplied limit, or 100 when none is supplied, as the digits of " LIMIT n"
LimitDigits(limit) == IF ~limit.some THEN "100" ELSE IF limit.v = 5 THEN "5" ELSE "?"

HasLimitWord(text) == Includes(ToLowerCase(text), "limit ")

\* C6 as stated: for an input without "limit " (compared case-insensitively) the
\* query handed to the engine is the input followed by " LIMIT n", n the supplied
\* limit or 100.
C6_LimitAppendedToInput ==
  \A i \in slots :
    QueryHanded(i) /\ ~HasLimitWord(inv[i].arg.query) =>
      ExecutedQuery(i) = inv[i].arg.query \o " LIMIT " \o LimitDigits(inv[i].arg.limit)

\* C6, amended: for an input without "limit " (compared case-insensitively) the
\* query handed to the engine is the input with its leading and trailing white
\* space removed, followed by " LIMIT n", n the supplied limit or 100.
C6_LimitAppendedToTrimmedInput ==
  \A i \in slots :
    QueryHanded(i) /\ ~HasLimitWord(inv[i].arg.query) =>
      ExecutedQuery(i)
        = Trim(inv[i].arg.query) \o " LIMIT " \o LimitDigits(inv[i].arg.limit)

C6_PaddedQueryHanded ==
  \E i \in slots :
    /\ QueryHanded(i)
    /\ inv[i].arg.query = "  SELECT * FROM tags\n"
    /\ inv[i].arg.limit = Some(5)
    /\ ExecutedQuery(i) = "SELECT * FROM tags LIMIT 5"

\* C7 as stated: for an input that contains "limit " (case-insensitively) the
\* query handed to the engine is the input, character for character.
C7_LimitedInputUnmodified ==
  \A i \in slots :
    QueryHanded(i) /\ HasLimitWord(inv[i].arg.query) =>
      ExecutedQuery(i) = inv[i].arg.query

\* C7, amended: for an input that still contains "limit " (case-insensitively)
\* once its leading and trailing white space is removed, the query handed to the
\* engine is that trimmed input, with nothing appended.
C7_LimitedTrimmedInputUnmodified ==
  \A i \in slots :
    QueryHanded(i) /\ HasLimitWord(Trim(inv[i].arg.query)) =>
      ExecutedQuery(i) = Trim(inv[i].arg.query)

C7_LimitedQueryHanded ==
  \E i \in slots :
    /\ QueryHanded(i)
    /\ inv[i].arg.query = " SELECT * FROM tags LIMIT 5 "
    /\ ExecutedQuery(i) = "SELECT * FROM tags LIMIT 5"

\* the decimal representation of the 64-bit integers the engine answers with
Decimal(v) ==
  IF v = Big0 THEN "0"
  ELSE IF v = Big42 THEN "42"
  ELSE IF v = BigUnsafe THEN "9007199254740993"
  ELSE IF v = BigMin THEN "-9223372036854775808"
  ELSE "?"

\* a value with every 64-bit integer in it, at any depth, written as the string
\* of its decimal representation
RECURSIVE WithDecimals(_)
WithDecimals(v) ==
  IF v.t = "big" THEN JStr(Decimal(v))
  ELSE IF v.t = "arr" THEN JArr([j \in 1..Len(v.a) |-> WithDecimals(v.a[j])])
  ELSE IF v.t = "obj" THEN JObj(v.k, [j \in 1..Len(v.v) |-> WithDecimals(v.v[j])])
  ELSE v

\* a Parquet query handler ran to its end: the engine answered every call, the
\* fourth answer being the rows of the query
RowsSerialized(i) ==
  /\ inv[i].h \in {"query-parquet", "parquet"}
  /\ Returned(i)
  /\ Len(inv[i].ans) = 6
  /\ inv[i].ans[6].kind = "value"

\* C8: safeStringify writes every 64-bit integer of a Parquet result, at any
\* depth, as a JSON string of its decimal digits, writes every other value as
\* plain JSON serialization does, and does not fail on a 64-bit integer.
C8_BigIntsAsDecimalStrings ==
  \A i \in slots :
    RowsSerialized(i) =>
      LET rows == inv[i].ans[4].data IN
      /\ inv[i].resp.kind \in {"content", "contents"}
      /\ inv[i].resp.text
           = Serialize(JObj(<<"result", "rowCount", "query">>,
                            <<WithDecimals(rows), JNum(Len(rows.a)),
                              JStr(inv[i].reqs[4].body.s)>>), "")

C8_NestedBigIntSerialized ==
  \E i \in slots :
    /\ RowsSerialized(i)
    /\ inv[i].h = "query-parquet"
    /\ inv[i].ans[4].data
         = JArr(<< JObj(<<"h", "tags">>, <<BigMin, JArr(<<Big42, JStr("x"), JNull>>)>>) >>)
    /\ Includes(inv[i].resp.text, "\"h\": \"-9223372036854775808\"")
    /\ Includes(inv[i].resp.text, "\"42\"")

\* an invocation that asks the token client for one record got its answer
RecordAnswered(i) ==
  /\ \/ inv[i].h = "get-ant-record"
     \/ inv[i].h = "ant" /\ inv[i].loc.action = "record"
  /\ Len(inv[i].ans) = 1

RequestedUndername(i) ==
  IF inv[i].h = "ant" THEN inv[i].arg.search.undername.v ELSE inv[i].arg.undername

\* C9: get-ant-record and ant://.../record answer a missing record with the text
\* No record found for undername "<undername>", which carries no Error prefix,
\* and a throwing token client with a text that starts with Error.
C9_NoRecordIsNotAnError ==
  \A i \in slots :
    RecordAnswered(i) =>
      /\ Returned(i)
      /\ inv[i].resp.kind \in {"content", "contents"}
      /\ inv[i].ans[1].kind = "value" /\ inv[i].ans[1].data.t = "undefined" =>
           /\ inv[i].resp.text
                = "No record found for undername \"" \o RequestedUndername(i) \o "\""
           /\ ~StartsWith(inv[i].resp.text, "Error")
      /\ inv[i].ans[1].kind = "threw" => StartsWith(inv[i].resp.text, "Error")

C9_NoRecordReturned ==
  \E i \in slots :
    /\ RecordAnswered(i)
    /\ inv[i].h = "get-ant-record"
    /\ inv[i].arg.undername = "www"
    /\ inv[i].ans[1].kind = "value"
    /\ inv[i].ans[1].data.t = "undefined"

ValidActions ==
  { "info", "state", "records", "record", "owner", "controllers", "name", "ticker",
    "balances", "logo" }

\* the token-client query that matches an action
MatchingQuery(action) ==
  CASE action = "info" -> "getInfo"
    [] action = "state" -> "getState"
    [] action = "records" -> "getRecords"
    [] action = "record" -> "getRecord"
    [] action = "owner" -> "getOwner"
    [] action = "controllers" -> "getControllers"
    [] action = "name" -> "getName"
    [] action = "ticker" -> "getTicker"
    [] action = "balances" -> "getBalances"
    [] action = "logo" -> "getLogo"
    [] OTHER -> "?"

\* a read of ant://{processId}/{action} with a process and an action in the URI
AntRead(i) ==
  inv[i].h = "ant" /\ inv[i].arg.processId # "" /\ inv[i].arg.action # ""

\* the error text names the action and lists every valid action; nothing is asked
\* of the token client
UnknownActionRefused(i) ==
  /\ Returned(i)
  /\ inv[i].resp.kind = "contents"
  /\ StartsWith(inv[i].resp.text, "Error")
  /\ Includes(inv[i].resp.text, "\"" \o inv[i].arg.action \o "\"")
  /\ \A a \in ValidActions : Includes(inv[i].resp.text, a)
  /\ inv[i].reqs = <<>>

OneMatchingQuery(i) ==
  /\ Len(inv[i].reqs) = 1
  /\ inv[i].reqs[1].method = MatchingQuery(inv[i].arg.action)
  /\ inv[i].reqs[1].url = "ANT:" \o inv[i].arg.processId

\* C10 as stated: with a non-empty processId, an action outside the valid set is
\* refused with a text that names it and lists the valid actions, without a
\* token-client query; an action inside the set issues exactly its one query.
C10_EveryValidActionQueries ==
  \A i \in slots :
    AntRead(i) =>
      IF inv[i].arg.action \in ValidActions
      THEN OneMatchingQuery(i)
      ELSE UnknownActionRefused(i)

\* C10, amended: as stated, except that the action record without a non-empty
\* undername parameter issues no query and returns the missing-undername text.
C10_ValidActionQueriesUnlessNoUndername ==
  \A i \in slots :
    AntRead(i) =>
      IF inv[i].arg.action \notin ValidActions
      THEN UnknownActionRefused(i)
      ELSE IF inv[i].arg.action = "record"
              /\ inv[i].arg.search.undername \in {None, Some("")}
      THEN /\ inv[i].reqs = <<>>
           /\ Returned(i)
           /\ inv[i].resp
                = Contents(inv[i].href,
                           "Error: Missing undername parameter for record action")
      ELSE OneMatchingQuery(i)

C10_UnknownActionReturned ==
  \E i \in slots :
    /\ AntRead(i)
    /\ inv[i].arg.action = "bogus"
    /\ Returned(i)

\* a list-gateways invocation returned what the registry client answered
GatewaysListed(i) ==
  /\ inv[i].h = "list-gateways"
  /\ Returned(i)
  /\ Len(inv[i].ans) = 1
  /\ inv[i].ans[1].kind = "value"

\* the limit n of a list-gateways call: the one supplied, or 100
SuppliedLimit(i) == IF inv[i].arg.limit.some THEN inv[i].arg.limit.v ELSE 100

HandlerOutcome ==
  \E i \in slots : inv[i].pc # "done" /\ inv'[i].pc = "done"

\* C12: the process stops serving only by exiting: with status 0 in the one step
\* of an interrupt or terminate signal, which is possible at any moment whatever is
\* in flight, or with status 1 when the initial transport connection fails before
\* serving began; a step in which a handler returns any outcome never exits.
C12_ExitOnlyBySignalOrConnectFailure ==
  /\ [](proc.state # "exited" => \A sig \in {"SIGINT", "SIGTERM"} : ENABLED Signal(sig))
  /\ [][/\ proc.state = "serving" /\ proc'.state # "serving" =>
             /\ proc'.state = "exited"
             /\ proc'.code = 0
             /\ proc'.log \in {"Process terminated by SIGINT",
                               "Process terminated by SIGTERM"}
        /\ proc.state = "connecting" /\ proc'.state = "exited" =>
             \/ proc'.code = 0 /\ proc'.log # "Error connecting server:"
             \/ proc'.code = 1 /\ proc'.log = "Error connecting server:"
        /\ proc.state = "exited" => proc' = proc
        /\ HandlerOutcome => proc' = proc
       ]_vars

C12_ExitedWithWorkInFlight ==
  /\ proc.state = "exited"
  /\ proc.code = 0
  /\ proc.log = "Process terminated by SIGTERM"
  /\ proc.abandoned # {}

\* the invocations that hold an engine instance of their own: created, not yet
\* closed by them
EngineUsers ==
  {i \in slots : inv[i].h = "get-parquet-schema"
                 /\ inv[i].pc \in {"connect", "exec", "all", "sample", "count",
                                   "connClose", "dbClose"}}

HasConnection(i) == inv[i].pc # "connect"

\* the instance and connection of invocation i are in the state its own calls
\* left them in
OwnEngineUntouched(i) ==
  LET c == inv[i] IN
  /\ dbs[c.loc.db].open
  /\ dbs[c.loc.db].views = IF c.pc \in {"connect", "exec"} THEN {} ELSE {"tags"}
  /\ HasConnection(i) =>
       /\ conns[c.loc.conn].db = c.loc.db
       /\ conns[c.loc.conn].open = (c.pc # "dbClose")

\* the text get-parquet-schema returns for the rows its own three queries answered
SchemaTextOf(sample, countResult) ==
  Serialize(JObj(<<"schema", "sampleData", "totalRows", "parquetDirectory">>,
                 <<JArr(SchemaRows), WithDecimals(sample),
                   WithDecimals(TotalRows(countResult.a)), JStr(parquetDirectory)>>), "")

\* C13: invocations in flight together do not interfere, under every
\* interleaving of their steps: each Parquet invocation has an engine instance
\* and a connection no other invocation uses, sees in it only the view and the
\* closes it made itself, and every response is determined by the invocation's
\* own input and the answers to its own calls.
C13_NoInterference ==
  /\ \A i \in EngineUsers : OwnEngineUntouched(i)
  /\ \A i, j \in EngineUsers :
       i # j =>
         /\ inv[i].loc.db # inv[j].loc.db
         /\ HasConnection(i) /\ HasConnection(j) => inv[i].loc.conn # inv[j].loc.conn
  /\ \A i, j \in slots :
       /\ Returned(i) /\ Returned(j)
       /\ inv[i].h = inv[j].h /\ inv[i].arg = inv[j].arg /\ inv[i].ans = inv[j].ans
       => inv[i].resp = inv[j].resp /\ inv[i].reqs = inv[j].reqs
  /\ \A i \in slots :
       /\ inv[i].h = "get-parquet-schema" /\ Returned(i)
       /\ Len(inv[i].ans) = 8 /\ inv[i].ans[8].kind = "value"
       => inv[i].resp = Content(SchemaTextOf(inv[i].ans[5].data, inv[i].ans[6].data))

C13_TwoEngineUsersInFlight ==
  /\ EngineUsers = {1, 2}
  /\ inv[1].pc = "exec"
  /\ inv[2].pc = "dbClose"
  /\ inv[1].loc.db = 2

\* the outbound network requests an invocation has issued (calls of the embedded
\* engine stay in the process)
NetworkRequests(i) == {k \in 1..Len(inv[i].reqs) : inv[i].reqs[k].url # "duckdb"}

\* C14 as stated: no invocation of a tool issues more than one outbound network
\* request.
C14_OneRequestPerTool ==
  \A i \in slots :
    inv[i].h \in ToolNames => Cardinality(NetworkRequests(i)) <= 1

\* C14, amended: no invocation of a tool issues more than one outbound network
\* request, except fetch-raw-transaction in the size-checking variants, which
\* issues a HEAD and then at most one GET of the same URL.
C14_OneRequestPerToolButSizeCheck ==
  \A i \in slots :
    inv[i].h \in ToolNames =>
      IF inv[i].h = "fetch-raw-transaction" /\ variant \in {"full", "sizecheck"}
      THEN /\ Len(inv[i].reqs) <= 2
           /\ Len(inv[i].reqs) >= 1 => inv[i].reqs[1].method = "HEAD"
           /\ Len(inv[i].reqs) = 2 =>
                /\ inv[i].reqs[2].method = "GET"
                /\ inv[i].reqs[2].url = inv[i].reqs[1].url
      ELSE Cardinality(NetworkRequests(i)) <= 1

C14_HeadThenGetIssued ==
  \E i \in slots :
    /\ inv[i].h = "fetch-raw-transaction"
    /\ variant = "sizecheck"
    /\ Len(inv[i].reqs) = 2
    /\ inv[i].reqs[1].method = "HEAD"
    /\ inv[i].reqs[2].method = "GET"
    /\ Returned(i)

\* the k-th external call of invocation i answered with a non-2xx status or threw
FailedAt(i, k) ==
  \/ inv[i].ans[k].kind = "threw"
  \/ inv[i].ans[k].kind = "response" /\ ~Ok(inv[i].ans[k].r)

\* after a failed call, the invocation has issued no later request to the endpoint
\* of the failed one
NoRetryAfterFailure ==
  \A i \in slots : \A k \in 1..Len(inv[i].ans) :
    FailedAt(i, k) =>
      \A j \in (k + 1)..Len(inv[i].reqs) : inv[i].reqs[j].url # inv[i].reqs[k].url

\* after a failed call, the invocation has returned an envelope with an error text
ErrorTextAfterFailure ==
  \A i \in slots : \A k \in 1..Len(inv[i].ans) :
    FailedAt(i, k) =>
      /\ Returned(i)
      /\ inv[i].resp.kind \in {"content", "contents"}
      /\ Includes(inv[i].resp.text, "Error")

\* C15: no handler retries: once an external call of an invocation has answered
\* with a non-2xx status or has thrown, the invocation issues no further request
\* to the same endpoint and returns its error text.
C15_NoRetryAndErrorText == NoRetryAfterFailure /\ ErrorTextAfterFailure

\* the options object of a client call carries key with value val
Passed(req, key, val) ==
  \E j \in 1..Len(req.body.k) : req.body.k[j] = key /\ req.body.v[j] = val

\* an arns:// read whose network and sort order are acceptable
ArNSReadBut(i) ==
  /\ inv[i].h = "arns"
  /\ inv[i].arg.network \in {"", "mainnet", "testnet"}
  /\ inv[i].arg.search.sortOrder.some => inv[i].arg.search.sortOrder.v \in {"asc", "desc"}
  /\ inv[i].arg.search.sortBy.some

\* every sort field of the tool is accepted by the resource and passed to the
\* registry client
ToolSortFieldsAcceptedByResource ==
  \A i \in slots :
    /\ ArNSReadBut(i)
    /\ inv[i].arg.search.sortBy.v \in
         {"name", "type", "processId", "startTimestamp", "undernameLimit",
          "purchasePrice", "endTimestamp"}
    => /\ Len(inv[i].reqs) = 1
       /\ Passed(inv[i].reqs[1], "sortBy", JStr(inv[i].arg.search.sortBy.v))

\* every sort field the resource accepts is one the tool accepts
ResourceSortFieldsAcceptedByTool ==
  \A i \in slots :
    ArNSReadBut(i) /\ Len(inv[i].reqs) = 1 =>
      inv[i].arg.search.sortBy.v \in
        {"name", "type", "processId", "startTimestamp", "undernameLimit",
         "purchasePrice", "endTimestamp"}

\* C16: the get-arns-records tool and the arns:// resource accept the same sort
\* fields: each of name, type, processId, startTimestamp, undernameLimit,
\* purchasePrice, endTimestamp is accepted by the resource and passed to the
\* registry client, and each field the resource accepts is accepted by the tool.
C16_SameSortFields == ToolSortFieldsAcceptedByResource /\ ResourceSortFieldsAcceptedByTool

\* the tool call of slot 1 and the resource read of slot 2 got the same valid
\* identifier and, so far, the same upstream answers
SameInputsAndAnswers ==
  /\ inv[1].h = "fetch-raw-transaction"
  /\ inv[2].h = "transaction"
  /\ inv[1].arg.txId = inv[2].arg.txId
  /\ inv[1].arg.txId \in {Rep("a", 40) \o "Z9_", Rep("-", 43)}
  /\ inv[1].ans = inv[2].ans

\* C17: in every variant, the fetch-raw-transaction tool and the transaction://
\* resource, given the same valid identifier and the same upstream answers, issue
\* the same sequence of requests and return the same text, in a content[]
\* envelope and in a contents[] envelope with the uri.
C17_TwinsAgree ==
  SameInputsAndAnswers =>
    /\ inv[1].reqs = inv[2].reqs
    /\ Returned(1) <=> Returned(2)
    /\ Returned(1) =>
         /\ inv[1].resp.text = inv[2].resp.text
         /\ inv[1].resp.kind \in {"content", "fault"}
         /\ inv[2].resp.kind = (IF inv[1].resp.kind = "content" THEN "contents" ELSE "fault")
         /\ inv[2].resp.kind = "contents" => inv[2].resp.uri = inv[2].href

\* C18: the transaction:// resource issues a request only for an identifier of 43
\* characters of A-Z a-z 0-9 _ -; for any other identifier it returns an
\* input-validation error text and issues no HEAD or GET request.
C18_ResourceValidatesTxId ==
  \A i \in slots :
    inv[i].h = "transaction" /\ inv[i].arg.txId \in InvalidTxIds =>
      /\ inv[i].reqs = <<>>
      /\ Returned(i)
      /\ inv[i].resp.kind = "contents"
      /\ Includes(inv[i].resp.text, "Error")

\* C19: a read of gateways://{network} or arns://{network} with a network other
\* than mainnet and testnet returns the text "Error: Invalid network. Must be one
\* of: mainnet, testnet" and no registry client is constructed or called; an
\* absent network is read as mainnet.
C19_InvalidNetworkRefused ==
  \A i \in slots :
    inv[i].h \in {"gateways", "arns"} =>
      IF inv[i].arg.network \in {"", "mainnet", "testnet"}
      THEN /\ inv[i].resp.text # "Error: Invalid network. Must be one of: mainnet, testnet"
           /\ \A k \in 1..Len(inv[i].reqs) :
                inv[i].reqs[k].url =
                  (IF inv[i].arg.network = "testnet" THEN "ARIO.testnet" ELSE "ARIO.mainnet")
      ELSE /\ Returned(i)
           /\ inv[i].resp.kind = "contents"
           /\ inv[i].resp.uri = inv[i].href
           /\ inv[i].resp.text = "Error: Invalid network. Must be one of: mainnet, testnet"
           /\ inv[i].reqs = <<>>

C19_DevnetRefused ==
  \E i \in slots :
    /\ inv[i].h = "arns"
    /\ inv[i].arg.network = "devnet"
    /\ Returned(i)

\* an absent network reaches the mainnet registry
C19_AbsentNetworkIsMainnet ==
  \E i \in slots :
    /\ inv[i].h = "gateways"
    /\ inv[i].arg.network = ""
    /\ Len(inv[i].reqs) = 1
    /\ inv[i].reqs[1].url = "ARIO.mainnet"
    /\ Returned(i)

\* the protocol prefixes of a URL (a scheme is case-insensitive)
ProtocolPrefixes == {"http://", "https://", "HTTP://", "HTTPS://"}

\* the <h> of a requested URL https://<h>/ar-io/info
RequestedHost(url) == SubSeq(url, Len("https://") + 1, Len(url) - Len("/ar-io/info"))

\* C20: for every hostname given to get-gateway-info-by-hostname or to
\* gateway://{hostname}, the request goes to https://<h>/ar-io/info, where <h> is
\* the hostname without its protocol prefix: the URL uses https and <h> begins
\* with no protocol prefix.
C20_HttpsAndPrefixRemoved ==
  \A i \in slots :
    inv[i].h \in {"get-gateway-info-by-hostname", "gateway"} /\ Len(inv[i].reqs) >= 1 =>
      LET url == inv[i].reqs[1].url
          h == RequestedHost(url)
      IN
      /\ url = "https://" \o h \o "/ar-io/info"
      /\ \/ inv[i].arg.hostname = h
         \/ \E p \in ProtocolPrefixes : inv[i].arg.hostname = p \o h
      /\ \A p \in ProtocolPrefixes : ~StartsWith(h, p)

\* the part of C20 that the code keeps: the URL is https://<h>/ar-io/info, and <h>
\* is the hostname, without its prefix when it began with http:// or https://
HttpsAndOnePrefixRemoved ==
  \A i \in slots :
    inv[i].h \in {"get-gateway-info-by-hostname", "gateway"} /\ Len(inv[i].reqs) >= 1 =>
      LET url == inv[i].reqs[1].url
          h == RequestedHost(url)
      IN
      /\ url = "https://" \o h \o "/ar-io/info"
      /\ IF \E p \in {"http://", "https://"} : StartsWith(inv[i].arg.hostname, p)
         THEN \E p \in {"http://", "https://"} : inv[i].arg.hostname = p \o h
         ELSE inv[i].arg.hostname = h

\* the bodies of the model as text and as base64
BodyAsText(body) ==
  CASE body = <<>> -> ""
    [] body = <<104, 105>> -> "hi"
    [] body = <<123, 125>> -> "{}"
    [] Len(body) = 8193 -> Repeated("a", 8193)
    [] OTHER -> "<U+FFFD><U+FFFD><U+FFFD><U+FFFD>"

BodyAsBase64(body) ==
  CASE body = <<>> -> ""
    [] body = <<104, 105>> -> "aGk="
    [] body = <<123, 125>> -> "e30="
    [] Len(body) = 8193 -> Repeated("YWFh", 2731)
    [] OTHER -> "/9j/4A=="

\* a size-checking transaction fetch returned after a 2xx answer of its GET
FetchedTransaction(i) ==
  /\ variant \in {"full", "sizecheck"}
  /\ inv[i].h \in {"fetch-raw-transaction", "transaction"}
  /\ Returned(i)
  /\ Len(inv[i].ans) = 2
  /\ inv[i].ans[2].kind = "response"
  /\ inv[i].ans[2].r.status = 200

\* C21: in the size-checking transaction fetch the body is decoded by the
\* Content-Type of the GET response: as text when it contains text/,
\* application/json, application/xml or application/javascript, otherwise (also
\* when the header is absent) as the base64 marker followed by the base64 of the
\* bytes; the byte count shown is the length the HEAD response declared.
C21_DecodedByContentType ==
  \A i \in slots :
    FetchedTransaction(i) =>
      LET ct == inv[i].ans[2].data.ct
          body == inv[i].ans[2].data.body
          cl == inv[i].ans[1].data
          type == IF ct.some THEN ct.v ELSE ""
          data == IF ct \in {Some("text/plain"), Some("application/json; charset=utf-8"),
                             Some("application/xml"), Some("application/javascript")}
                  THEN BodyAsText(body)
                  ELSE "[Binary data encoded as base64]: " \o BodyAsBase64(body)
      IN
      /\ \E count \in {"0", "2", "8192", "NaN"} :
           inv[i].resp.text = "Transaction data (" \o count \o " bytes, " \o type \o "): " \o data
      /\ cl \in {Some("0"), Some("2"), Some("8192")} =>
           StartsWith(inv[i].resp.text, "Transaction data (" \o cl.v \o " bytes, ")

C21_BinaryFetched ==
  \E i \in slots :
    /\ FetchedTransaction(i)
    /\ inv[i].ans[2].data.ct = Some("image/png")
    /\ inv[i].ans[1].data = Some("8192")
    /\ Includes(inv[i].resp.text, "/9j/4A==")

C21_JsonFetched ==
  \E i \in slots :
    /\ FetchedTransaction(i)
    /\ inv[i].ans[2].data.ct = Some("application/json; charset=utf-8")
    /\ inv[i].ans[2].data.body = <<123, 125>>

\* the engine steps of a handler that runs one query, in the order of the code
QuerySteps == <<"create", "connect", "exec", "all", "conn.close", "db.close">>

RunsOneQuery(i) == inv[i].h \in {"query-parquet", "parquet"} /\ Len(inv[i].reqs) >= 1

\* every engine call of the invocation so far resolved
AllResolved(i) == \A k \in 1..Len(inv[i].ans) : inv[i].ans[k].kind = "value"

\* C22: in every successful query-parquet or parquet:// invocation the steps
\* create instance, open connection, create the view tags, execute the caller's
\* query, close the connection, close the instance happen in this order, each at
\* most once; the response is returned only after both closes, and the query is
\* executed only while the view exists and the connection is open.
C22_StepsInOrder ==
  \A i \in slots :
    RunsOneQuery(i) =>
      /\ Len(inv[i].reqs) <= Len(QuerySteps)
      /\ \A k \in 1..Len(inv[i].reqs) : inv[i].reqs[k].method = QuerySteps[k]
      /\ Len(inv[i].reqs) >= 3 => Includes(inv[i].reqs[3].body.s, "CREATE VIEW IF NOT EXISTS tags")
      /\ Len(inv[i].reqs) >= 4 => inv[i].reqs[4].body.s = inv[i].loc.queryWithLimit
      /\ inv[i].pc = "all" =>
           /\ "tags" \in dbs[inv[i].loc.db].views
           /\ dbs[inv[i].loc.db].open
           /\ conns[inv[i].loc.conn].open
           /\ conns[inv[i].loc.conn].db = inv[i].loc.db
      /\ Returned(i) /\ AllResolved(i) =>
           /\ Len(inv[i].ans) = Len(QuerySteps)
           /\ Len(inv[i].reqs) = Len(QuerySteps)
           /\ ~conns[inv[i].loc.conn].open
           /\ ~dbs[inv[i].loc.db].open

C22_QueryRunAndClosed ==
  \E i \in slots :
    /\ inv[i].h = "parquet"
    /\ Returned(i)
    /\ Len(inv[i].ans) = 6
    /\ AllResolved(i)
    /\ inv[i].resp.kind = "contents"

\* the invocations that hold a token-client handle
HandleHolders == {i \in slots : inv[i].pc # "idle" /\ "ant" \in DOMAIN inv[i].loc}

\* the ANT operations that take a process identifier
AntOperations == {"get-ant-info", "get-ant-state", "get-ant-records", "get-ant-record", "ant"}

\* invocation i issues a call of a token client in this step
IssuesAntCall(i) ==
  /\ Len(inv'[i].reqs) = Len(inv[i].reqs) + 1 \/ (inv[i].pc = "idle" /\ Len(inv'[i].reqs) = 1)
  /\ inv'[i].h \in AntOperations

\* every call of a token client is made on the handle the invocation made itself,
\* for the process it was given, and no two invocations hold the same handle
OwnHandleOnly ==
  /\ \A i \in slots :
       inv[i].h \in AntOperations /\ Len(inv[i].reqs) >= 1 =>
         /\ i \in HandleHolders
         /\ Len(inv[i].reqs) = 1
         /\ inv[i].reqs[1].on = inv[i].loc.ant
         /\ inv[i].loc.ant.processId = inv[i].arg.processId
         /\ inv[i].loc.ant.id >= 1 /\ inv[i].loc.ant.id <= calls
  /\ \A i, j \in HandleHolders : i # j => inv[i].loc.ant.id # inv[j].loc.ant.id

\* C23: every ANT operation that takes a process identifier makes a new
\* token-client handle inside the invocation and calls only that handle; no
\* handle made by one invocation is used by another, in any sequence or
\* interleaving of calls.
C23_HandlePerInvocation ==
  /\ []OwnHandleOnly
  /\ [][\A i \in slots :
          IssuesAntCall(i) =>
            /\ inv'[i].reqs[Len(inv'[i].reqs)].on.id > calls
            /\ \A j \in HandleHolders :
                 inv'[i].reqs[Len(inv'[i].reqs)].on.id # inv[j].loc.ant.id]_vars

C23_TwoHandlesSameProcess ==
  /\ HandleHolders = {1, 2}
  /\ inv[1].pc # "done" /\ inv[2].pc # "done"
  /\ inv[1].arg.processId = inv[2].arg.processId
  /\ inv[1].h = "get-ant-info" /\ inv[2].h = "ant"

\* the limit a caller means: the number of a tool argument, the digits of a
\* query-string parameter; 100 when there is none or it is not a positive number
MeantLimit(i) ==
  IF inv[i].h \in {"list-gateways", "get-arns-records"}
  THEN (IF inv[i].arg.limit.some /\ inv[i].arg.limit.v > 0 THEN inv[i].arg.limit.v ELSE 100)
  ELSE CASE inv[i].arg.search.limit = Some("5") -> 5
         [] inv[i].arg.search.limit = Some("2") -> 2
         [] OTHER -> 100

CallsRegistry(i) ==
  /\ inv[i].h \in {"list-gateways", "get-arns-records", "gateways", "arns"}
  /\ Len(inv[i].reqs) >= 1

\* C24: the limit that list-gateways, get-arns-records, gateways:// and arns://
\* pass to the registry client is always a positive number: the caller's limit
\* when that is a positive number, and 100 when it is absent, zero, negative or,
\* for the resources, not a number.
C24_PositiveLimitPassed ==
  \A i \in slots :
    CallsRegistry(i) =>
      /\ \E n \in 1..100 : Passed(inv[i].reqs[1], "limit", JNum(n))
      /\ Passed(inv[i].reqs[1], "limit", JNum(MeantLimit(i)))

C24_NegativeLimitReplaced ==
  \E i \in slots :
    /\ CallsRegistry(i)
    /\ inv[i].h = "arns"
    /\ inv[i].arg.search.limit = Some("-3")
    /\ Passed(inv[i].reqs[1], "limit", JNum(100))

\* the tools refuse a limit that is not positive before their handler runs
C24_ToolLimitRefused ==
  \E i \in slots :
    /\ inv[i].h = "list-gateways"
    /\ inv[i].arg.limit = Some(0)
    /\ inv[i].resp.kind = "invalid"
    /\ inv[i].reqs = <<>>

\* C25: in the range variant each fetch-raw-transaction or transaction://
\* invocation issues exactly one GET of <origin>/raw/<txId> with the header
\* Range: bytes=0-999 and no HEAD request; the payload returned for a 2xx answer
\* is the response body as text.
C25_OneRangedGet ==
  \A i \in slots :
    /\ variant = "range"
    /\ inv[i].h \in {"fetch-raw-transaction", "transaction"}
    /\ inv[i].resp.kind # "invalid"
    => /\ inv[i].reqs =
            << [method |-> "GET",
                url |-> "https://ardrive.net/raw/" \o inv[i].arg.txId,
                range |-> "bytes=0-999",
                body |-> [t |-> "none"]] >>
       /\ Returned(i) => Len(inv[i].ans) = 1
       /\ Len(inv[i].ans) = 1 /\ inv[i].ans[1].kind = "response" /\ inv[i].ans[1].r.status = 200 =>
            /\ inv[i].resp.kind \in {"content", "contents"}
            /\ \E prefix \in {"First 1000 bytes of transaction data: ", "Transaction data: "} :
                 inv[i].resp.text = prefix \o BodyAsText(inv[i].ans[1].data.body)

C25_RangedBodyReturned ==
  \E i \in slots :
    /\ variant = "range"
    /\ inv[i].h = "fetch-raw-transaction"
    /\ Returned(i)
    /\ Len(inv[i].ans) = 1
    /\ inv[i].ans[1].kind = "response" /\ inv[i].ans[1].r.status = 200
    /\ inv[i].ans[1].data.body = <<104, 105>>
    /\ inv[i].resp.text = "First 1000 bytes of transaction data: hi"

\* C26: whenever the size-checking fetch-raw-transaction returns a Transaction
\* data payload, the body it downloaded is at most 8192 bytes, also when the HEAD
\* response carries no Content-Length or one that differs from the length of the
\* body the GET returns.
C26_ReturnedBodyWithinLimit ==
  \A i \in slots :
    /\ FetchedTransaction(i)
    /\ inv[i].h = "fetch-raw-transaction"
    /\ StartsWith(inv[i].resp.text, "Transaction data")
    => Len(inv[i].ans[2].data.body) <= 8192

\* the guard the code does keep: no GET follows a HEAD that declares more than
\* 8192 bytes, and the payload shows a declared length of at most 8192
DeclaredLengthWithinLimit ==
  \A i \in slots :
    FetchedTransaction(i) =>
      /\ inv[i].ans[1].data \notin {Some("8193"), Some("1048576")}
      /\ \E count \in {"0", "2", "8192", "NaN"} :
           StartsWith(inv[i].resp.text, "Transaction data (" \o count \o " bytes, ")

\* a parquet:// read appended a row cap to the caller's query
CapAppended(i) ==
  /\ inv[i].h = "parquet"
  /\ Len(inv[i].reqs) >= 1
  /\ inv[i].loc.queryWithLimit # Trim(inv[i].arg.query)

\* C27: the row cap the parquet://{query} resource appends to a query without
\* "limit " is always a positive integer: the limit parameter when that is a
\* positive integer, and 100 otherwise (absent, not a number, zero or negative).
C27_PositiveCapAppended ==
  \A i \in slots :
    CapAppended(i) =>
      inv[i].loc.queryWithLimit =
        Trim(inv[i].arg.query) \o " LIMIT "
          \o (IF inv[i].arg.search.limit = Some("5") THEN "5" ELSE "100")

\* what the code does: the digits appended are those of parseInt of the
\* parameter, whatever it reads, and 100 only when the parameter is absent
ParsedCapAppended ==
  \A i \in slots :
    CapAppended(i) =>
      inv[i].loc.queryWithLimit =
        Trim(inv[i].arg.query) \o " LIMIT "
          \o (CASE inv[i].arg.search.limit = Some("5") -> "5"
                [] inv[i].arg.search.limit = Some("-3") -> "-3"
                [] inv[i].arg.search.limit = Some("abc") -> "NaN"
                [] OTHER -> "100")

\* the options object of a call has no property key
NotPassed(req, key) == \A j \in 1..Len(req.body.k) : req.body.k[j] # key

C28_ParsedVariablesPosted ==
  \E i \in slots :
    /\ inv[i].h = "graphql"
    /\ inv[i].arg.search.variables = Some("{\"first\": 5}")
    /\ Len(inv[i].reqs) = 1
    /\ Returned(i)

\* C29: a read of ant://{processId}/{action} with an empty processId returns
\* "Error: Missing ANT process ID" and constructs no client; with a processId,
\* the action record and no undername parameter it returns "Error: Missing
\* undername parameter for record action" and issues no getRecord; with a
\* processId and an absent action it issues the one call getInfo.
C29_AntResourceValidates ==
  \A i \in slots :
    inv[i].h = "ant" =>
      IF inv[i].arg.processId = ""
      THEN /\ Returned(i) /\ inv[i].reqs = <<>>
           /\ "ant" \notin DOMAIN inv[i].loc
           /\ inv[i].resp = [kind |-> "contents", uri |-> inv[i].href,
                             text |-> "Error: Missing ANT process ID"]
      ELSE /\ (/\ inv[i].arg.action = "record"
               /\ inv[i].arg.search.undername \in {None, Some("")})
                => /\ Returned(i) /\ inv[i].reqs = <<>>
                   /\ inv[i].resp =
                        [kind |-> "contents", uri |-> inv[i].href,
                         text |-> "Error: Missing undername parameter for record action"]
           /\ inv[i].arg.action = ""
                => /\ Len(inv[i].reqs) = 1
                   /\ inv[i].reqs[1].method = "getInfo"
                   /\ inv[i].reqs[1].on.processId = inv[i].arg.processId

C29_MissingUndernameRefused ==
  \E i \in slots :
    /\ inv[i].h = "ant"
    /\ inv[i].arg.processId # ""
    /\ inv[i].arg.action = "record"
    /\ inv[i].arg.search.undername = None
    /\ Returned(i)

C29_MissingProcessIdRefused ==
  \E i \in slots :
    /\ inv[i].h = "ant"
    /\ inv[i].arg.processId = ""
    /\ inv[i].arg.action = "record"
    /\ Returned(i)

C29_AbsentActionReadsInfo ==
  \E i \in slots :
    /\ inv[i].h = "ant"
    /\ inv[i].arg.processId # ""
    /\ inv[i].arg.action = ""
    /\ Returned(i)
    /\ inv[i].resp.kind = "contents"
    /\ Len(inv[i].ans) = 1

(* Termination *)

\* an external call of invocation i answers or throws and the handler runs on to
\* its next await or to its return
Answers(i) ==
  /\ i \in InFlight
  /\ Next
  /\ proc' = proc
  /\ inv'[i] # inv[i]

\* the invocations still to be dispatched when a behaviour of SpecAnswering starts
MaxAnswered == 1

\* the server starts; MaxCalls - MaxAnswered invocations count as dispatched,
\* returned and delivered before
InitAnswering ==
  /\ variant \in Variants
  /\ slots = {1}
  /\ inv = [i \in slots |-> Idle]
  /\ calls = MaxCalls - MaxAnswered
  /\ dbs = <<>>
  /\ conns = <<>>
  /\ proc = [state |-> "connecting", code |-> 0, log |-> "", abandoned |-> {}]

\* every external call an invocation is waiting for eventually answers or throws
SpecAnswering == InitAnswering /\ [][Next]_vars /\ WF_vars(Answers(1))

EngineSteps(i, methods) ==
  {k \in 1..Len(inv[i].reqs) : inv[i].reqs[k].url = "duckdb" /\ inv[i].reqs[k].method \in methods}

\* at most two HTTP requests, or at most one engine open, five statements
\* (the connect among them) and two closes
StepsBounded ==
  \A i \in slots :
    /\ Cardinality(NetworkRequests(i)) <= 2
    /\ NetworkRequests(i) = {} \/ EngineSteps(i, {"create", "connect", "exec", "all", "conn.close", "db.close"}) = {}
    /\ Cardinality(EngineSteps(i, {"create"})) <= 1
    /\ Cardinality(EngineSteps(i, {"connect", "exec", "all"})) <= 5
    /\ Cardinality(EngineSteps(i, {"conn.close", "db.close"})) <= 2
    /\ Len(inv[i].ans) <= Len(inv[i].reqs)
    /\ Len(inv[i].reqs) <= Len(inv[i].ans) + 1
    /\ i \in InFlight => Len(inv[i].reqs) = Len(inv[i].ans) + 1

\* an invocation holds a response exactly when it has returned, and the response
\* stays as it is until the transport takes it
OneResponse ==
  \A i \in slots :
    /\ Returned(i) <=> inv[i].resp # NoResp
    /\ Returned(i) => (inv'[i].resp = inv[i].resp \/ inv'[i] = Idle)

\* C30: every dispatched invocation eventually returns, or the process is
\* signalled and exits first, given that each external call it waits for
\* eventually answers or throws; it returns one response, and it makes at most two
\* HTTP requests, or at most one engine open, five statements and two closes.
C30_EveryInvocationReturns ==
  /\ (1 \in InFlight) ~> (Returned(1) \/ proc.state = "exited")
  /\ []StepsBounded
  /\ [][OneResponse]_vars

C30_SchemaReturnedAfterEightSteps ==
  \E i \in slots :
    /\ inv[i].h = "get-parquet-schema"
    /\ Returned(i)
    /\ Len(inv[i].reqs) = 8
    /\ Len(inv[i].ans) = 8

C30_TransactionReturnedAfterTwoRequests ==
  \E i \in slots :
    /\ inv[i].h = "fetch-raw-transaction"
    /\ Returned(i)
    /\ Len(inv[i].ans) = 2

====
